---------------------------- MODULE Spec2Model ----------------------------
(***************************************************************************)
(* A model of the medical image analysis agent (src/medagent.py) and of    *)
(* the way the upload application (src/app.py) shares one agent between    *)
(* its sessions.                                                           *)
(*                                                                         *)
(* One analysis is a call of MedicalAnalysisAgent.analyze_medical_image:   *)
(* it clears and rebuilds the agent's workflow graph, builds a fresh       *)
(* state and lets the graph run the seven nodes over it, merging each      *)
(* node's partial update into the state.  Callers are the threads that     *)
(* call the agent: one thread at a time in Spec, two threads that          *)
(* interleave freely in ConcSpec.                                          *)
(*                                                                         *)
(* Texts are modelled by what the code looks at.  A model response is a    *)
(* sequence of lines; a line is either one of the three section markers    *)
(* or a sequence of segments, the pieces of the line between its colons.   *)
(***************************************************************************)
EXTENDS Integers, Sequences, FiniteSets, TLC

VARIABLES
    graph,      \* self.graph of the shared agent: NoGraph or the id of a built graph
    client,     \* the kind of the agent's Model Client (self.model)
    now,        \* the wall clock, in ticks
    pc,         \* pc[c]: where caller c is in analyze_medical_image / the workflow
    runs,       \* runs[c]: analyses caller c has started
    inp,        \* inp[c]: the arguments of caller c's current call
    st,         \* st[c]: the workflow state of caller c's current analysis
    upd,        \* upd[c]: the partial update returned by the node that ran last
    executed,   \* executed[c]: the nodes the workflow has run in this analysis, each
                \* with the status it returned and the number of its notices
    env,        \* env[c]: what the collaborators answered in this analysis
    result,     \* result[c]: what the last call returned to caller c
    response,   \* a combined response handed to the Response Parser
    parsed,     \* what the Response Parser made of it
    call,       \* a call of the Model Client: what was asked and what it returned
    ui          \* a session of the upload page: its session state and widgets

vars == <<graph, client, now, pc, runs, inp, st, upd, executed, env, result, response, parsed, call, ui>>

-----------------------------------------------------------------------------
(* Bounds of the model *)

\* analyses each caller starts
MaxRuns == 2

\* last tick of the wall clock
MaxTime == 2

\* ticks in one second of the wall clock
TicksPerSecond == 2

Callers == {1, 2}

\* the caller of the one-at-a-time specification
SeqCallers == {1}

Times == 0..MaxTime

-----------------------------------------------------------------------------
(* Images: what preprocess_image_node looks at.  kind "none" is the absent *)
(* image (None), kind "corrupt" an image file whose pixel data cannot be   *)
(* loaded, so that convert() raises.                                       *)

NoImage == [kind |-> "none", mode |-> "", w |-> 0, h |-> 0]

Img(mode, w, h) == [kind |-> "ok", mode |-> mode, w |-> w, h |-> h]

CorruptImage == [kind |-> "corrupt", mode |-> "L", w |-> 1024, h |-> 1024]

\* the images a caller supplies
Images ==
    { NoImage, CorruptImage,
      Img("L", 1024, 1024), Img("RGBA", 1024, 300), Img("RGB", 100, 80) }

\* the image types a caller supplies
ImageTypes == { "x-ray", "MRI" }

ImagePaths == { "", "scan.png" }

\* str.lower() on the image types
LowerType(t) ==
    CASE t = "MRI" -> "mri"
      [] t = "X-Ray" -> "x-ray"
      [] t = "CT Scan" -> "ct scan"
      [] t = "ECG" -> "ecg"
      [] t = "Ultrasound" -> "ultrasound"
      [] OTHER -> t

\* str.upper() on the lower-cased image types
UpperType(t) ==
    CASE t = "mri" -> "MRI"
      [] t = "x-ray" -> "X-RAY"
      [] t = "ct scan" -> "CT SCAN"
      [] t = "ecg" -> "ECG"
      [] t = "ultrasound" -> "ULTRASOUND"
      [] t = "Unknown" -> "UNKNOWN"
      [] OTHER -> t

\* max_size of preprocess_image_node
max_size == 512

Abs(x) == IF x < 0 THEN 0 - x ELSE x

\* image.convert("RGB") when the mode is not RGB
ConvertRGB(image) ==
    IF image.mode # "RGB" THEN [image EXCEPT !.mode = "RGB"] ELSE image

ThumbnailKeepsSize(image) == image

\* image.thumbnail((max_size, max_size)): the size is kept when it fits, and
\* otherwise the longer side becomes max_size and the other side the floor or
\* the ceiling of its scaled length, whichever keeps the aspect ratio best
\* (the floor on a tie), and at least 1.
Thumbnail(image) ==
    IF max_size >= image.w /\ max_size >= image.h THEN image
    ELSE IF image.h >= image.w
    THEN LET lo == (max_size * image.w) \div image.h
             hi == IF lo * image.h = max_size * image.w THEN lo ELSE lo + 1
             key(n) == Abs(max_size * image.w - n * image.h)
             best == IF key(hi) < key(lo) THEN hi ELSE lo
         IN  [image EXCEPT !.w = IF best < 1 THEN 1 ELSE best, !.h = max_size]
    ELSE LET lo == (max_size * image.h) \div image.w
             hi == IF lo * image.w = max_size * image.h THEN lo ELSE lo + 1
             \* |w/h - max_size/n| compared through a common denominator
             key(n) == IF n = 0 THEN 0 ELSE Abs(image.w * n - max_size * image.h)
             better == IF lo = 0 THEN FALSE ELSE key(hi) * lo < key(lo) * hi
             best == IF better THEN hi ELSE lo
         IN  [image EXCEPT !.w = max_size, !.h = IF best < 1 THEN 1 ELSE best]

-----------------------------------------------------------------------------
(* Messages of the log.  fmt is the literal part of the message, a the     *)
(* text formatted into it, w and h the image size formatted into it.       *)

Msg(role, fmt, a, w, h) == [role |-> role, fmt |-> fmt, a |-> a, w |-> w, h |-> h]

HumanMessage(fmt, a) == Msg("human", fmt, a, 0, 0)

AIMessage(fmt, a) == Msg("ai", fmt, a, 0, 0)

-----------------------------------------------------------------------------
(* The state schema and its merge.  Every key of the schema is a           *)
(* last-value channel, except messages whose reducer is operator.add.      *)

InputFields == { "image", "image_path", "image_type" }

ResultFields ==
    { "initial_analysis", "comprehensive_analysis", "disease_identification",
      "root_cause_analysis", "recommended_medicines", "two_week_plan",
      "final_report", "doctor_summary" }

MetaFields == { "analysis_id", "timestamp", "confidence_scores" }

Fields == InputFields \cup ResultFields \cup MetaFields \cup { "messages", "error", "status" }

\* the keys written with the append reducer
AppendFields == { "messages" }

EmptyState == [k \in {} |-> ""]

Has(s, k) == k \in DOMAIN s

\* dict.get(k, d)
Get(s, k, d) == IF k \in DOMAIN s THEN s[k] ELSE d

\* the merge of a node's partial update u into the state s
MergeOverwrite(s, u) ==
    [k \in DOMAIN s \cup DOMAIN u |-> IF k \in DOMAIN u THEN u[k] ELSE s[k]]

MergeReplace(s, u) == u

MergeFirstWins(s, u) ==
    [k \in DOMAIN s \cup DOMAIN u |->
        IF k \in DOMAIN s
        THEN IF k \in AppendFields /\ k \in DOMAIN u THEN s[k] \o u[k] ELSE s[k]
        ELSE u[k]]

Merge(s, u) ==
    [k \in DOMAIN s \cup DOMAIN u |->
        IF k \in DOMAIN u
        THEN IF k \in AppendFields /\ k \in DOMAIN s THEN s[k] \o u[k] ELSE u[k]
        ELSE s[k]]

-----------------------------------------------------------------------------
(* Texts.  A text is a sequence of lines.  A line is a section marker      *)
(* (m is the marker, it stands on a line of its own) or an ordinary line   *)
(* (m = ""), given by its segments: the pieces between its colons, so      *)
(* that <<"Name", " Aspirin">> is the line "Name: Aspirin" and a line of   *)
(* one segment holds no colon.                                             *)

MED == "=== MEDICATIONS ==="

CARE == "=== CARE PLAN ==="

DOC == "=== DOCTOR SUMMARY ==="

Marker(m) == [m |-> m, segs |-> <<>>]

Line(segs) == [m |-> "", segs |-> segs]

\* str.lower() on the segments of the vocabulary
Lower(s) ==
    CASE s = "Name" -> "name"
      [] s = "NAME" -> "name"
      [] s = "Brand Name" -> "brand name"
      [] s = "Dosage" -> "dosage"
      [] s = "Dose" -> "dose"
      [] s = "Duration" -> "duration"
      [] s = "Type" -> "type"
      [] s = "Class" -> "class"
      [] s = "Contraindications" -> "contraindications"
      [] s = "Warning" -> "warning"
      [] s = "N/A" -> "n/a"
      [] s = "None" -> "none"
      [] s = "NONE" -> "none"
      [] OTHER -> s

\* the characters of a segment that are not whitespace at its left end
LStrip(s) ==
    CASE s = " " -> ""
      [] s = " Amoxicillin" -> "Amoxicillin"
      [] s = " Ibuprofen" -> "Ibuprofen"
      [] s = " N/A" -> "N/A"
      [] s = " none" -> "none"
      [] s = " 500mg twice daily" -> "500mg twice daily"
      [] s = " 7-10 days" -> "7-10 days"
      [] s = " Antibiotic" -> "Antibiotic"
      [] s = " Penicillin allergy" -> "Penicillin allergy"
      [] s = " 400mg" -> "400mg"
      [] s = " Pneumonia" -> "Pneumonia"
      [] s = " Brand Name" -> "Brand Name"
      [] s = " Name" -> "Name"
      [] s = " 5 days" -> "5 days"
      [] s = " Analgesic" -> "Analgesic"
      [] s = " Avoid with anticoagulants" -> "Avoid with anticoagulants"
      [] OTHER -> s

\* the characters of a segment that are not whitespace at its right end
RStrip(s) ==
    CASE s = " " -> ""
      [] s = "Name " -> "Name"
      [] OTHER -> s

\* the key that the lower-cased segment ends with, so that the line holds
\* the key followed by a colon when the segment is not the last of its line
EndsWithKey(s) ==
    LET l == Lower(LStrip(s)) IN
    CASE RStrip(s) # s -> ""
      [] l \in { "name", "brand name" } -> "name"
      [] l = "dosage" -> "dosage"
      [] l = "dose" -> "dose"
      [] l = "duration" -> "duration"
      [] l = "type" -> "type"
      [] l = "class" -> "class"
      [] OTHER -> ""

\* 'contraindication' in s.lower() or 'warning' in s.lower()
MentionsWarning(s) ==
    Lower(s) \in { "contraindications", "warning", " warning signs requiring immediate attention" }

\* the keys that stand before a colon of the line
KeysOf(segs) == { EndsWithKey(segs[i]) : i \in 1..(Len(segs) - 1) } \ { "" }

\* line.strip() of an ordinary line
StripSegs(segs) ==
    IF Len(segs) = 1 THEN << LStrip(RStrip(segs[1])) >>
    ELSE [i \in 1..Len(segs) |->
            IF i = 1 THEN LStrip(segs[1])
            ELSE IF i = Len(segs) THEN RStrip(segs[i])
            ELSE segs[i]]

\* not line, for a stripped line
IsBlank(segs) == segs = << "" >>

\* line.split(':', 1)[1].strip(): what follows the first colon of the line,
\* itself a sequence of segments when it holds further colons
ValueOf(segs) == StripSegs(SubSeq(segs, 2, Len(segs)))

\* the text of one segment, as a value
Str(s) == << s >>

\* not v, for a value
IsEmptyValue(v) == v = << "" >>

\* v.lower() in ['n/a', 'none', '']
IsPlaceholder(v) == Len(v) = 1 /\ Lower(v[1]) \in { "n/a", "none", "" }

\* the place of the first marker m of the text at or after line i, 0 if none
IndexOfFrom(text, m, i) ==
    LET at == { j \in i..Len(text) : text[j].m = m }
    IN  IF at = {} THEN 0 ELSE CHOOSE j \in at : \A k \in at : j <= k

\* m in text
Contains(text, m) == IndexOfFrom(text, m, 1) # 0

\* text.split(m)[0]
SplitFirst(text, m) ==
    LET i == IndexOfFrom(text, m, 1) IN
    IF i = 0 THEN text ELSE SubSeq(text, 1, i - 1)

\* text.split(m)[1], for a text that holds m
SplitSecond(text, m) ==
    LET i == IndexOfFrom(text, m, 1)
        j == IndexOfFrom(text, m, i + 1)
    IN  IF j = 0 THEN SubSeq(text, i + 1, Len(text)) ELSE SubSeq(text, i + 1, j - 1)

\* a line of the text that is empty once stripped
BlankLine(l) == l.m = "" /\ IsBlank(StripSegs(l.segs))

\* the text without the blank lines at its start
TrimLeft(text) ==
    LET full == { j \in 1..Len(text) : ~ BlankLine(text[j]) }
    IN  IF full = {} THEN <<>>
        ELSE SubSeq(text, CHOOSE j \in full : \A k \in full : j <= k, Len(text))

\* the text without the blank lines at its end
TrimRight(text) ==
    LET full == { j \in 1..Len(text) : ~ BlankLine(text[j]) }
    IN  IF full = {} THEN <<>>
        ELSE SubSeq(text, 1, CHOOSE j \in full : \A k \in full : j >= k)

\* section.strip(): the section without the blank lines at its two ends and
\* without the whitespace at the two ends of what remains
StripText(text) ==
    LET t == TrimRight(TrimLeft(text)) IN
    [i \in 1..Len(t) |->
        IF t[i].m # "" THEN t[i]
        ELSE LET g == t[i].segs
                 a == IF i = 1 THEN [g EXCEPT ![1] = LStrip(g[1])] ELSE g
                 b == IF i = Len(t) THEN [a EXCEPT ![Len(a)] = RStrip(a[Len(a)])] ELSE a
             IN  Line(b)]

-----------------------------------------------------------------------------
(* _parse_medication_response: the line scanner.  A medication record is   *)
(* a function from the keys it holds to their values.                      *)

MedKeys == { "name", "dosage", "duration", "type", "contraindications" }

EmptyMed == [k \in {} |-> << "" >>]

\* current_med[k] = v
SetKey(med, k, v) == [x \in DOMAIN med \cup {k} |-> IF x = k THEN v ELSE med[x]]

\* med.setdefault(k, v)
SetDefault(med, k, v) == IF k \in DOMAIN med THEN med ELSE SetKey(med, k, v)

\* the field a line with a colon writes, "" when it writes none: the first
\* test of the if/elif chain that the line passes
FieldOfLine(segs) ==
    LET keys == KeysOf(segs) IN
    CASE "name" \in keys -> "name"
      [] "dosage" \in keys \/ "dose" \in keys -> "dosage"
      [] "duration" \in keys -> "duration"
      [] "type" \in keys \/ "class" \in keys -> "type"
      [] \E i \in 1..Len(segs) : MentionsWarning(segs[i]) -> "contraindications"
      [] OTHER -> ""

ScanLineSkipsUnusableName(p, l) ==
    LET segs == IF l.m # "" THEN << l.m >> ELSE StripSegs(l.segs)
        named == "name" \in DOMAIN p.cur
    IN  IF IsBlank(segs)
        THEN IF named THEN [meds |-> Append(p.meds, p.cur), cur |-> EmptyMed] ELSE p
        ELSE IF Len(segs) < 2 THEN p
        ELSE LET f == FieldOfLine(segs) IN
             IF f = "name"
             THEN IF IsEmptyValue(ValueOf(segs)) \/ IsPlaceholder(ValueOf(segs))
                  THEN p
                  ELSE [meds |-> IF named THEN Append(p.meds, p.cur) ELSE p.meds,
                        cur |-> SetKey(EmptyMed, "name", ValueOf(segs))]
             ELSE IF f # "" /\ named
             THEN [p EXCEPT !.cur = SetKey(p.cur, f, ValueOf(segs))]
             ELSE p

ScanLineBlankKeeps(p, l) ==
    LET segs == IF l.m # "" THEN << l.m >> ELSE StripSegs(l.segs)
        named == "name" \in DOMAIN p.cur
    IN  IF IsBlank(segs) THEN p
        ELSE IF Len(segs) < 2 THEN p
        ELSE LET f == FieldOfLine(segs) IN
             IF f = "name"
             THEN [meds |-> IF named THEN Append(p.meds, p.cur) ELSE p.meds,
                   cur |-> SetKey(EmptyMed, "name", ValueOf(segs))]
             ELSE IF f # "" /\ named
             THEN [p EXCEPT !.cur = SetKey(p.cur, f, ValueOf(segs))]
             ELSE p

ScanLineKeepsFields(p, l) ==
    LET segs == IF l.m # "" THEN << l.m >> ELSE StripSegs(l.segs)
        named == "name" \in DOMAIN p.cur
    IN  IF IsBlank(segs)
        THEN IF named THEN [meds |-> Append(p.meds, p.cur), cur |-> EmptyMed] ELSE p
        ELSE IF Len(segs) < 2 THEN p
        ELSE LET f == FieldOfLine(segs) IN
             IF f = "name"
             THEN [meds |-> IF named THEN Append(p.meds, p.cur) ELSE p.meds,
                   cur |-> SetKey(IF named THEN EmptyMed ELSE p.cur, "name", ValueOf(segs))]
             ELSE IF f # ""
             THEN [p EXCEPT !.cur = SetKey(p.cur, f, ValueOf(segs))]
             ELSE p

\* one turn of the loop over the lines: p is the pair of the medications
\* appended so far and the record in progress
ScanLine(p, l) ==
    LET segs == IF l.m # "" THEN << l.m >> ELSE StripSegs(l.segs)
        named == "name" \in DOMAIN p.cur
    IN  IF IsBlank(segs)
        THEN IF named THEN [meds |-> Append(p.meds, p.cur), cur |-> EmptyMed] ELSE p
        ELSE IF Len(segs) < 2 THEN p
        ELSE LET f == FieldOfLine(segs) IN
             IF f = "name"
             THEN [meds |-> IF named THEN Append(p.meds, p.cur) ELSE p.meds,
                   cur |-> SetKey(EmptyMed, "name", ValueOf(segs))]
             ELSE IF f # "" /\ named
             THEN [p EXCEPT !.cur = SetKey(p.cur, f, ValueOf(segs))]
             ELSE p

RECURSIVE ScanLines(_, _, _)
\* the loop over the lines, from line i on; the pair p is worked out at
\* each turn, as the loop does (Len(p.meds) >= 0 holds of every pair)
ScanLines(text, i, p) ==
    IF i <= Len(text) /\ Len(p.meds) >= 0
    THEN ScanLines(text, i + 1, ScanLine(p, text[i]))
    ELSE p

\* a name that is empty or a placeholder
Unusable(med) ==
    ~ ("name" \in DOMAIN med) \/ IsEmptyValue(med.name) \/ IsPlaceholder(med.name)

\* the defaults of the four other fields
FillDefaultsOverwrites(med) ==
    IF Unusable(med) THEN med
    ELSE SetKey(SetKey(SetKey(SetKey(med,
            "dosage", Str("As prescribed by physician")),
            "duration", Str("As directed")),
            "type", Str("Medication")),
            "contraindications", Str("Consult healthcare provider"))

FillDefaults(med) ==
    IF Unusable(med) THEN med
    ELSE SetDefault(SetDefault(SetDefault(SetDefault(med,
            "dosage", Str("As prescribed by physician")),
            "duration", Str("As directed")),
            "type", Str("Medication")),
            "contraindications", Str("Consult healthcare provider"))

FilterUsableKeepsAll(meds) == meds

RECURSIVE FilterUsable(_)
FilterUsable(meds) ==
    IF meds = <<>> THEN <<>>
    ELSE IF Unusable(Head(meds)) THEN FilterUsable(Tail(meds))
    ELSE << Head(meds) >> \o FilterUsable(Tail(meds))

_parse_medication_responseDropsLast(ai_response) ==
    LET p == ScanLines(ai_response, 1, [meds |-> <<>>, cur |-> EmptyMed])
        filled == [i \in 1..Len(p.meds) |-> FillDefaults(p.meds[i])]
    IN  FilterUsable(filled)

_parse_medication_response(ai_response) ==
    LET p == ScanLines(ai_response, 1, [meds |-> <<>>, cur |-> EmptyMed])
        all == IF "name" \in DOMAIN p.cur THEN Append(p.meds, p.cur) ELSE p.meds
        filled == [i \in 1..Len(all) |-> FillDefaults(all[i])]
    IN  FilterUsable(filled)

\* the fallback record of _parse_combined_medications
ParserFallbackMed ==
    [name |-> Str("Consult Healthcare Provider"),
     dosage |-> Str("As prescribed"),
     duration |-> Str("As directed"),
     type |-> Str("Professional Consultation"),
     contraindications |-> Str("Consult with qualified healthcare provider")]

\* the fallback record of care_plan_generation_node
NodeFallbackMed ==
    [name |-> Str("Consult Healthcare Provider"),
     dosage |-> Str("As prescribed"),
     duration |-> Str("As directed"),
     type |-> Str("Professional Consultation"),
     contraindications |-> Str("Please consult with a qualified healthcare provider.")]

med_sectionNothingWithoutMarker(combined_response) ==
    IF Contains(combined_response, MED)
    THEN SplitFirst(SplitSecond(combined_response, MED), CARE)
    ELSE <<>>

\* the part of the combined response that is scanned for medications
med_section(combined_response) ==
    IF Contains(combined_response, MED)
    THEN SplitFirst(SplitSecond(combined_response, MED), CARE)
    ELSE combined_response

_parse_combined_medicationsNoFallback(combined_response) ==
    _parse_medication_response(med_section(combined_response))

_parse_combined_medications(combined_response) ==
    LET medications == _parse_medication_response(med_section(combined_response))
    IN  IF medications = <<>> THEN << ParserFallbackMed >> ELSE medications

DefaultCarePlan == "Please consult with your healthcare provider for a personalized care plan."

DefaultDoctorSummary == "Medical analysis completed. Please review full report for details."

\* a formatted text: the template hdr around the lines body, with the
\* clock reading ts formatted into it (NoTime when the template holds none)
NoTime == 0 - 1

Formatted(hdr, body, ts) == [hdr |-> hdr, body |-> body, ts |-> ts]

_extract_care_plan_section(combined_response) ==
    IF Contains(combined_response, CARE)
    THEN Formatted("## TWO-WEEK CARE PLAN",
                   StripText(SplitFirst(SplitSecond(combined_response, CARE), DOC)),
                   NoTime)
    ELSE Formatted(DefaultCarePlan, <<>>, NoTime)

_extract_doctor_summary_section(combined_response, t) ==
    IF Contains(combined_response, DOC)
    THEN Formatted("# CLINICAL SUMMARY FOR HEALTHCARE PROVIDERS",
                   StripText(SplitSecond(combined_response, DOC)), t)
    ELSE Formatted(DefaultDoctorSummary, <<>>, NoTime)

-----------------------------------------------------------------------------
(* The Model Client, GoogleGeminiModel.  A prompt is given by the keywords *)
(* that its lower-cased text holds.  A call is made in one of the client's *)
(* conditions: "simulation" (no credentials), "success", "empty" (the      *)
(* model answered nothing) and "throws" (the API call threw).              *)

Prompt(keys) == [keys |-> keys]

SimInitialAnalysis == "Based on the medical image analysis: ..."

SimDiseaseIdentification == "Note: simulated response (disease identification)"

SimRootCause == "Note: simulated response (root cause)"

SimMedicationRecommendation == "Evidence-Based Medication Recommendations: ..."

SimCarePlan == "Comprehensive Care Plan Overview: ..."

SimGeneric == "Analysis completed. Please consult with a healthcare professional."

_get_simulated_responseDiseaseFirst(prompt) ==
    CASE "disease" \in prompt.keys \/ "condition" \in prompt.keys -> SimDiseaseIdentification
      [] "initial" \in prompt.keys \/ "analyze" \in prompt.keys -> SimInitialAnalysis
      [] "root cause" \in prompt.keys \/ "etiology" \in prompt.keys -> SimRootCause
      [] "medication" \in prompt.keys \/ "treatment" \in prompt.keys -> SimMedicationRecommendation
      [] "care plan" \in prompt.keys \/ "management" \in prompt.keys -> SimCarePlan
      [] OTHER -> SimGeneric

_get_simulated_response(prompt) ==
    CASE "initial" \in prompt.keys \/ "analyze" \in prompt.keys -> SimInitialAnalysis
      [] "disease" \in prompt.keys \/ "condition" \in prompt.keys -> SimDiseaseIdentification
      [] "root cause" \in prompt.keys \/ "etiology" \in prompt.keys -> SimRootCause
      [] "medication" \in prompt.keys \/ "treatment" \in prompt.keys -> SimMedicationRecommendation
      [] "care plan" \in prompt.keys \/ "management" \in prompt.keys -> SimCarePlan
      [] OTHER -> SimGeneric

analyze_imagePassesEmpty(cond, prompt, text) ==
    IF cond \in { "success", "empty" } THEN text ELSE _get_simulated_response(prompt)

\* analyze_image in condition cond; text is what the model generates
analyze_image(cond, prompt, text) ==
    IF cond = "success" THEN text ELSE _get_simulated_response(prompt)

SimulatedText ==
    << Line(<< "Simulated medication recommendations - Please consult with a healthcare provider." >>) >>

EmptyResponseText == << Line(<< "Unable to generate recommendations at this time." >>) >>

ApiErrorText == << Line(<< "Unable to generate recommendations due to API error." >>) >>

\* generate_text_response in condition cond; text is what the model generates
generate_text_response(cond, text) ==
    CASE cond = "success" -> text
      [] cond = "empty" -> EmptyResponseText
      [] cond = "throws" -> ApiErrorText
      [] OTHER -> SimulatedText

\* the prompt of initial_analysis_node: "Analyze this ... ROOT CAUSE: Primary etiology ..."
AnalysisPrompt == Prompt({ "analyze", "root cause", "etiology" })

\* the prompt of care_plan_generation_node: "... Generate treatment
\* recommendations ... === MEDICATIONS === ... === CARE PLAN === ..."
CombinedPrompt == Prompt({ "medication", "treatment", "care plan" })

\* what the model generates for an image
GeneratedAnalyses == { "Findings: right lower lobe consolidation. Diagnosis: pneumonia (80%)." }

\* a combined response in the format the prompt asks for; the second
\* medication gives a name and a dosage only
WellFormedResponse ==
    << Marker(MED),
       Line(<< "" >>),
       Line(<< "MEDICATION 1", "" >>),
       Line(<< "Name", " Amoxicillin" >>),
       Line(<< "Dosage", " 500mg twice daily" >>),
       Line(<< "Duration", " 7-10 days" >>),
       Line(<< "Type", " Antibiotic" >>),
       Line(<< "Contraindications", " Penicillin allergy" >>),
       Line(<< "" >>),
       Line(<< "MEDICATION 2", "" >>),
       Line(<< "Name", " Ibuprofen" >>),
       Line(<< "Dose", " 400mg" >>),
       Line(<< "" >>),
       Marker(CARE),
       Line(<< "" >>),
       Line(<< "Week 1 (Days 1-7)", "" >>),
       Line(<< "- Take all medications as prescribed" >>),
       Line(<< "" >>),
       Marker(DOC),
       Line(<< "" >>),
       Line(<< "Primary Diagnosis", " Pneumonia" >>) >>

\* a combined response that names no medication and holds no care plan
PoorResponse ==
    << Marker(MED),
       Line(<< "Name", " N/A" >>),
       Line(<< "Dosage", " 400mg" >>),
       Marker(DOC),
       Line(<< "Primary Diagnosis", " Pneumonia" >>) >>

\* what the model generates for the combined prompt
GeneratedResponses == { WellFormedResponse, PoorResponse }

\* the conditions in which a client of the given kind answers a call; the
\* kind "stub" is a client put in the place of GoogleGeminiModel whose calls
\* may raise
ClientKinds == { "simulation", "gemini" }

AllClientKinds == ClientKinds \cup { "stub" }

Conditions(kind) ==
    CASE kind = "simulation" -> { "simulation" }
      [] kind = "gemini" -> { "success", "empty", "throws" }
      [] OTHER -> { "success", "raises" }

\* the outcome of a call: the text returned or the exception raised
Returned(text) == [raised |-> FALSE, text |-> text, err |-> ""]

RaisedStr(err) == [raised |-> TRUE, text |-> "", err |-> err]

RaisedText(err) == [raised |-> TRUE, text |-> <<>>, err |-> err]

ClientError == "model client error"

\* the outcomes of self.model.analyze_image(image, prompt)
AnalyzeOutcomes(kind, prompt) ==
    { IF cond = "raises" THEN RaisedStr(ClientError)
      ELSE Returned(analyze_image(cond, prompt, text)) :
        cond \in Conditions(kind), text \in GeneratedAnalyses }

\* the outcomes of self.model.generate_text_response(prompt)
GenerateOutcomes(kind) ==
    { IF cond = "raises" THEN RaisedText(ClientError)
      ELSE Returned(generate_text_response(cond, text)) :
        cond \in Conditions(kind), text \in GeneratedResponses }

-----------------------------------------------------------------------------
(* The nodes of the workflow.  Each is a function of the state (and of     *)
(* what its collaborators answer: o is the outcome of its Model Client     *)
(* call, t the reading of the clock) that returns a partial update.        *)

\* strftime('%Y%m%d_%H%M%S') and strftime('%Y-%m-%d %H:%M:%S'): the second of tick t
Second(t) == t \div TicksPerSecond

\* f"MED_{...}"
AnalysisId(t) == [prefix |-> "MED_", sec |-> Second(t)]

NoAnalysisId == [prefix |-> "N/A", sec |-> NoTime]

Failed(fmt, err) ==
    [error |-> err, status |-> "failed", messages |-> << AIMessage(fmt, err) >>]

\* the exception that loading the pixel data of a corrupt image raises
LoadError == "image file is truncated"

preprocess_image_nodeStampsFirst(s, t) ==
    LET image == s.image IN
    IF image.kind = "none"
    THEN [error |-> "No image provided", status |-> "failed",
          analysis_id |-> AnalysisId(t),
          timestamp |-> t,
          messages |-> << AIMessage("Error: No image provided", "") >>]
    ELSE IF image.kind = "corrupt"
    THEN Failed("Error in preprocessing: ", LoadError)
    ELSE LET resized == Thumbnail(ConvertRGB(image)) IN
         [image |-> resized,
          analysis_id |-> AnalysisId(t),
          timestamp |-> t,
          status |-> "preprocessing_complete",
          messages |-> << Msg("ai", "Image preprocessed: ", s.image_type, resized.w, resized.h) >>]

preprocess_image_node(s, t) ==
    LET image == s.image IN
    IF image.kind = "none"
    THEN [error |-> "No image provided", status |-> "failed",
          messages |-> << AIMessage("Error: No image provided", "") >>]
    ELSE IF image.kind = "corrupt"
    THEN Failed("Error in preprocessing: ", LoadError)
    ELSE LET resized == Thumbnail(ConvertRGB(image)) IN
         [image |-> resized,
          analysis_id |-> AnalysisId(t),
          timestamp |-> t,
          status |-> "preprocessing_complete",
          messages |-> << Msg("ai", "Image preprocessed: ", s.image_type, resized.w, resized.h) >>]

initial_analysis_nodeNeedsImage(s, o) ==
    IF s.image.kind = "none" \/ o.raised
    THEN Failed("Error in initial analysis: ", IF o.raised THEN o.err ELSE "No image provided")
    ELSE [initial_analysis |-> o.text,
          comprehensive_analysis |-> o.text,
          status |-> "initial_analysis_complete",
          messages |-> << AIMessage("Comprehensive analysis completed", "") >>]

initial_analysis_nodeSwallows(s, o) ==
    IF o.raised
    THEN [status |-> "initial_analysis_complete",
          messages |-> << AIMessage("Comprehensive analysis completed", "") >>]
    ELSE [initial_analysis |-> o.text,
          comprehensive_analysis |-> o.text,
          status |-> "initial_analysis_complete",
          messages |-> << AIMessage("Comprehensive analysis completed", "") >>]

initial_analysis_node(s, o) ==
    IF o.raised
    THEN Failed("Error in initial analysis: ", o.err)
    ELSE [initial_analysis |-> o.text,
          comprehensive_analysis |-> o.text,
          status |-> "initial_analysis_complete",
          messages |-> << AIMessage("Comprehensive analysis completed", "") >>]

\* the three fixed scores, in hundredths (so that value*100 is the number itself)
FixedConfidenceScores ==
    [primary_diagnosis |-> 85, differential_diagnosis_1 |-> 10, differential_diagnosis_2 |-> 3]

disease_identification_nodeScoresFromText(s) ==
    LET comprehensive_analysis ==
            Get(s, "comprehensive_analysis", Get(s, "initial_analysis", ""))
    IN  [disease_identification |-> comprehensive_analysis,
         confidence_scores |->
             IF comprehensive_analysis = SimInitialAnalysis
             THEN FixedConfidenceScores
             ELSE [primary_diagnosis |-> 80, differential_diagnosis_1 |-> 15,
                   differential_diagnosis_2 |-> 5],
         status |-> "disease_complete",
         messages |-> << AIMessage("Disease identification completed", "") >>]

disease_identification_nodeAsksModel(s) ==
    [disease_identification |-> SimDiseaseIdentification,
     confidence_scores |-> FixedConfidenceScores,
     status |-> "disease_complete",
     messages |-> << AIMessage("Disease identification completed", "") >>]

disease_identification_node(s) ==
    LET comprehensive_analysis ==
            Get(s, "comprehensive_analysis", Get(s, "initial_analysis", ""))
    IN  [disease_identification |-> comprehensive_analysis,
         confidence_scores |-> FixedConfidenceScores,
         status |-> "disease_complete",
         messages |-> << AIMessage("Disease identification completed", "") >>]

root_cause_analysis_nodeWritesImage(s) ==
    LET comprehensive_analysis ==
            Get(s, "comprehensive_analysis", Get(s, "initial_analysis", ""))
    IN  [image |-> s.image,
         root_cause_analysis |-> comprehensive_analysis,
         status |-> "root_cause_complete",
         messages |-> << AIMessage("Root cause analysis completed", "") >>]

root_cause_analysis_node(s) ==
    LET comprehensive_analysis ==
            Get(s, "comprehensive_analysis", Get(s, "initial_analysis", ""))
    IN  [root_cause_analysis |-> comprehensive_analysis,
         status |-> "root_cause_complete",
         messages |-> << AIMessage("Root cause analysis completed", "") >>]

medication_recommendation_nodeRecommends(s) ==
    [recommended_medicines |-> << NodeFallbackMed >>,
     status |-> "medication_pass_through",
     messages |-> << AIMessage("Proceeding to combined generation", "") >>]

medication_recommendation_node(s) ==
    [status |-> "medication_pass_through",
     messages |-> << AIMessage("Proceeding to combined generation", "") >>]

care_plan_generation_nodeBare(s, o, t) ==
    IF o.raised
    THEN Failed("Error in combined generation: ", o.err)
    ELSE [recommended_medicines |-> _parse_combined_medications(o.text),
          two_week_plan |-> _extract_care_plan_section(o.text),
          doctor_summary |-> _extract_doctor_summary_section(o.text, Second(t)),
          status |-> "care_plan_complete",
          messages |-> << AIMessage("Medications, care plan, and doctor summary generated", "") >>]

care_plan_generation_node(s, o, t) ==
    IF o.raised
    THEN [recommended_medicines |-> << NodeFallbackMed >>,
          two_week_plan |-> Formatted(DefaultCarePlan, <<>>, NoTime),
          doctor_summary |-> Formatted(DefaultDoctorSummary, <<>>, NoTime),
          error |-> o.err,
          status |-> "failed",
          messages |-> << AIMessage("Error in combined generation: ", o.err) >>]
    ELSE [recommended_medicines |-> _parse_combined_medications(o.text),
          two_week_plan |-> _extract_care_plan_section(o.text),
          doctor_summary |-> _extract_doctor_summary_section(o.text, Second(t)),
          status |-> "care_plan_complete",
          messages |-> << AIMessage("Medications, care plan, and doctor summary generated", "") >>]

\* key.replace('_', ' ').title()
Humanize(key) ==
    CASE key = "primary_diagnosis" -> "Primary Diagnosis"
      [] key = "differential_diagnosis_1" -> "Differential Diagnosis 1"
      [] key = "differential_diagnosis_2" -> "Differential Diagnosis 2"
      [] OTHER -> key

\* med['name'], med['type'], ... raise KeyError on a record without the key
RendersMedications(s) ==
    Has(s, "recommended_medicines") =>
        \A i \in 1..Len(s.recommended_medicines) :
            MedKeys \subseteq DOMAIN s.recommended_medicines[i]

KeyErrorText == "KeyError"

\* the report: the sections of the template, in their order
_compile_final_report(s, t) ==
    [title |-> "MEDICAL IMAGE ANALYSIS REPORT",
     report_id |-> Get(s, "analysis_id", NoAnalysisId),
     generated |-> Get(s, "timestamp", t),
     image_type |-> UpperType(Get(s, "image_type", "Unknown")),
     analysis |-> Get(s, "comprehensive_analysis",
                      Get(s, "initial_analysis", "No analysis available")),
     scores |-> IF Has(s, "confidence_scores")
                THEN { << Humanize(k), s.confidence_scores[k] >> :
                          k \in DOMAIN s.confidence_scores }
                ELSE {},
     medications |-> IF Has(s, "recommended_medicines")
                     THEN [none |-> "", items |-> s.recommended_medicines]
                     ELSE [none |-> "No medication recommendations available.", items |-> <<>>],
     care_plan |-> Get(s, "two_week_plan", Formatted("No care plan available", <<>>, NoTime)),
     disclaimer |-> "IMPORTANT MEDICAL DISCLAIMER",
     footer |-> Second(t)]

report_compilation_nodeGated(s, t) ==
    IF Has(s, "error")
    THEN Failed("Error in report compilation: ", s.error)
    ELSE [final_report |-> _compile_final_report(s, t),
          doctor_summary |-> Get(s, "doctor_summary",
                                 Formatted("Doctor summary not available", <<>>, NoTime)),
          status |-> "completed",
          messages |-> << AIMessage("Final report compiled successfully", "") >>]

report_compilation_node(s, t) ==
    IF ~ RendersMedications(s)
    THEN Failed("Error in report compilation: ", KeyErrorText)
    ELSE [final_report |-> _compile_final_report(s, t),
          doctor_summary |-> Get(s, "doctor_summary",
                                 Formatted("Doctor summary not available", <<>>, NoTime)),
          status |-> "completed",
          messages |-> << AIMessage("Final report compiled successfully", "") >>]

-----------------------------------------------------------------------------
(* The workflow graph of build_graph: its nodes and its edges.             *)

START == "__start__"

END == "__end__"

Nodes ==
    << "preprocess", "initial_analysis", "disease_identification", "root_cause",
       "medications", "care_plan", "final_report" >>

\* the edge that leaves node n
EdgeSkipping(n) ==
    CASE n = START -> "preprocess"
      [] n = "preprocess" -> "initial_analysis"
      [] n = "initial_analysis" -> "disease_identification"
      [] n = "disease_identification" -> "root_cause"
      [] n = "root_cause" -> "care_plan"
      [] n = "medications" -> "care_plan"
      [] n = "care_plan" -> "final_report"
      [] OTHER -> END

Edge(n) ==
    CASE n = START -> "preprocess"
      [] n = "preprocess" -> "initial_analysis"
      [] n = "initial_analysis" -> "disease_identification"
      [] n = "disease_identification" -> "root_cause"
      [] n = "root_cause" -> "medications"
      [] n = "medications" -> "care_plan"
      [] n = "care_plan" -> "final_report"
      [] n = "final_report" -> END
      [] OTHER -> END

-----------------------------------------------------------------------------
(* analyze_medical_image, step by step.  pc[c] is "idle" outside a call,   *)
(* then "clear" (before self.graph = None), "build" (before build_graph), *)
(* "check" (before the test of self.graph), "invoke" (before               *)
(* self.graph.invoke), then the node the workflow runs next, END when the  *)
(* workflow is through, and "returned"; it would be "raised" after a call   *)
(* that raised to its caller.                                              *)

NoGraph == [built |-> FALSE, by |-> 0]

\* the graph that caller c's build_graph compiles (0: load_agent's)
Graph(c) == [built |-> TRUE, by |-> c]

NoInput == [image |-> NoImage, image_type |-> "", image_path |-> ""]

NoEnv ==
    [img |-> Returned(""), txt |-> Returned(<<>>), t1 |-> 0, t6 |-> 0, t7 |-> 0, calls |-> <<>>]

\* the initial state that analyze_medical_image prepares
InitialStateStale(image, image_type, image_path) ==
    [image |-> image,
     image_type |-> LowerType(image_type),
     image_path |-> image_path,
     error |-> "No image provided",
     status |-> "completed",
     messages |-> << AIMessage("Final report compiled successfully", ""),
                     HumanMessage("Analyzing image: ", image_type) >>]

InitialState(image, image_type, image_path) ==
    [image |-> image,
     image_type |-> LowerType(image_type),
     image_path |-> image_path,
     messages |-> << HumanMessage("Analyzing image: ", image_type) >>]

\* the except clause of analyze_medical_image: an exception raised in the
\* try block is caught, and the call returns an error and status=failed
ExceptClauseReraise(err) == [pc |-> "raised", result |-> EmptyState]

ExceptClause(err) == [pc |-> "returned", result |-> [error |-> err, status |-> "failed"]]

GraphNotBuilt == "Graph not built. Call build_graph() first."

NoneHasNoInvoke == "'NoneType' object has no attribute 'invoke'"

\* no file in the uploader, None
NoFile == ""

\* analysis_result = None
NoResult == [status |-> "", file |-> NoFile, image_type |-> ""]

\* the session after initialize_session_state, before any upload
NoSession ==
    [analysis_complete |-> FALSE, analysis_result |-> NoResult,
     last_uploaded_file |-> NoFile, uploaded_file |-> NoFile,
     image_type |-> "X-Ray", status_text |-> "", shown |-> NoResult, pc |-> "idle"]

\* no call of the Model Client under study
NoCall == [method |-> "", prompt |-> Prompt({}), cond |-> "", returned |-> ""]

\* no combined response under study
NoResponse == [kind |-> "free", entries |-> <<>>, text |-> <<>>]

NotParsed ==
    [done |-> FALSE, section |-> <<>>, medications |-> <<>>,
     two_week_plan |-> Formatted("", <<>>, NoTime),
     doctor_summary |-> Formatted("", <<>>, NoTime)]

TypeOK ==
    /\ graph \in { NoGraph } \cup { Graph(c) : c \in Callers \cup {0} }
    /\ client \in AllClientKinds
    /\ now \in Times
    /\ pc \in [Callers -> { "idle", "clear", "build", "check", "invoke", "returned", "raised", END }
                            \cup { Nodes[i] : i \in 1..Len(Nodes) }]
    /\ runs \in [Callers -> 0..MaxRuns]
    /\ \A c \in Callers : DOMAIN st[c] \subseteq Fields /\ DOMAIN upd[c] \subseteq Fields

AgentInit(kinds) ==
    /\ graph \in { NoGraph, Graph(0) }
    /\ client \in kinds
    /\ now = 0
    /\ pc = [c \in Callers |-> "idle"]
    /\ runs = [c \in Callers |-> 0]
    /\ inp = [c \in Callers |-> NoInput]
    /\ st = [c \in Callers |-> EmptyState]
    /\ upd = [c \in Callers |-> EmptyState]
    /\ executed = [c \in Callers |-> <<>>]
    /\ env = [c \in Callers |-> NoEnv]
    /\ result = [c \in Callers |-> EmptyState]

InitWith(kinds) ==
    /\ AgentInit(kinds)
    /\ response = NoResponse
    /\ parsed = NotParsed
    /\ call = NoCall
    /\ ui = NoSession

\* the agent after MedicalAnalysisAgent(), alone or followed by load_agent's build_graph
Init == InitWith(ClientKinds)

\* the wall clock advances
Tick ==
    /\ now < MaxTime
    /\ now' = now + 1
    /\ UNCHANGED <<graph, client, pc, runs, inp, st, upd, executed, env, result, response, parsed, call, ui>>

\* caller c calls analyze_medical_image(image, image_type, image_path)
Call(c, images, types, paths) ==
    /\ pc[c] \in { "idle", "returned" }
    /\ runs[c] < MaxRuns
    /\ \E image \in images, image_type \in types, image_path \in paths :
          inp' = [inp EXCEPT ![c] = [image |-> image, image_type |-> image_type,
                                     image_path |-> image_path]]
    /\ runs' = [runs EXCEPT ![c] = @ + 1]
    /\ pc' = [pc EXCEPT ![c] = "clear"]
    /\ st' = [st EXCEPT ![c] = EmptyState]
    /\ upd' = [upd EXCEPT ![c] = EmptyState]
    /\ executed' = [executed EXCEPT ![c] = <<>>]
    /\ env' = [env EXCEPT ![c] = NoEnv]
    /\ result' = [result EXCEPT ![c] = EmptyState]
    /\ UNCHANGED <<graph, client, now, response, parsed, call, ui>>

\* self.graph = None
ClearGraph(c) ==
    /\ pc[c] = "clear"
    /\ graph' = NoGraph
    /\ pc' = [pc EXCEPT ![c] = "build"]
    /\ UNCHANGED <<client, now, runs, inp, st, upd, executed, env, result, response, parsed, call, ui>>

\* self.build_graph()
BuildGraph(c) ==
    /\ pc[c] = "build"
    /\ graph' = Graph(c)
    /\ pc' = [pc EXCEPT ![c] = "check"]
    /\ UNCHANGED <<client, now, runs, inp, st, upd, executed, env, result, response, parsed, call, ui>>

\* if self.graph is None: raise RuntimeError(...), caught by the except clause
CheckGraph(c) ==
    /\ pc[c] = "check"
    /\ IF graph = NoGraph
       THEN /\ result' = [result EXCEPT ![c] = ExceptClause(GraphNotBuilt).result]
            /\ pc' = [pc EXCEPT ![c] = ExceptClause(GraphNotBuilt).pc]
       ELSE /\ pc' = [pc EXCEPT ![c] = "invoke"]
            /\ UNCHANGED result
    /\ UNCHANGED <<graph, client, now, runs, inp, st, upd, executed, env, response, parsed, call, ui>>

\* self.graph.invoke(initial_state): the attribute is read again; the
\* workflow starts with the initial state written to its channels
Invoke(c) ==
    /\ pc[c] = "invoke"
    /\ IF graph = NoGraph
       THEN /\ result' = [result EXCEPT ![c] = ExceptClause(NoneHasNoInvoke).result]
            /\ pc' = [pc EXCEPT ![c] = ExceptClause(NoneHasNoInvoke).pc]
            /\ UNCHANGED st
       ELSE /\ st' = [st EXCEPT ![c] =
                        Merge(EmptyState,
                              InitialState(inp[c].image, inp[c].image_type, inp[c].image_path))]
            /\ pc' = [pc EXCEPT ![c] = Edge(START)]
            /\ UNCHANGED result
    /\ UNCHANGED <<graph, client, now, runs, inp, upd, executed, env, response, parsed, call, ui>>

\* the workflow runs node n of caller c's analysis, which returns update u:
\* u is merged into the state and the edge that leaves n is followed
RunNode(c, n, u) ==
    /\ pc[c] = n
    /\ upd' = [upd EXCEPT ![c] = u]
    /\ st' = [st EXCEPT ![c] = Merge(st[c], u)]
    /\ executed' = [executed EXCEPT ![c] =
                        Append(@, [node |-> n, status |-> Get(u, "status", ""),
                                   notices |-> Len(Get(u, "messages", <<>>))])]
    /\ pc' = [pc EXCEPT ![c] = Edge(n)]
    /\ UNCHANGED <<graph, client, now, runs, inp, result, response, parsed, call, ui>>

\* the methods of the Model Client that node n calls, in the order of the calls
ClientCallsReportAsks(n) ==
    CASE n = "initial_analysis" -> << "analyze_image" >>
      [] n = "care_plan" -> << "generate_text_response" >>
      [] n = "final_report" -> << "generate_text_response" >>
      [] OTHER -> <<>>

ClientCalls(n) ==
    CASE n = "initial_analysis" -> << "analyze_image" >>
      [] n = "care_plan" -> << "generate_text_response" >>
      [] OTHER -> <<>>

\* the calls of caller c's analysis once node n has made its own
Called(c, n) ==
    env[c].calls \o [i \in 1..Len(ClientCalls(n)) |-> [node |-> n, method |-> ClientCalls(n)[i]]]

Preprocess(c) ==
    /\ RunNode(c, "preprocess", preprocess_image_node(st[c], now))
    /\ env' = [env EXCEPT ![c].t1 = now, ![c].calls = Called(c, "preprocess")]

InitialAnalysis(c) ==
    /\ pc[c] = "initial_analysis"
    /\ \E o \in AnalyzeOutcomes(client, AnalysisPrompt) :
          /\ RunNode(c, "initial_analysis", initial_analysis_node(st[c], o))
          /\ env' = [env EXCEPT ![c].img = o, ![c].calls = Called(c, "initial_analysis")]

DiseaseIdentification(c) ==
    /\ RunNode(c, "disease_identification", disease_identification_node(st[c]))
    /\ env' = [env EXCEPT ![c].calls = Called(c, "disease_identification")]

RootCause(c) ==
    /\ RunNode(c, "root_cause", root_cause_analysis_node(st[c]))
    /\ env' = [env EXCEPT ![c].calls = Called(c, "root_cause")]

Medications(c) ==
    /\ RunNode(c, "medications", medication_recommendation_node(st[c]))
    /\ env' = [env EXCEPT ![c].calls = Called(c, "medications")]

CarePlan(c) ==
    /\ pc[c] = "care_plan"
    /\ \E o \in GenerateOutcomes(client) :
          /\ RunNode(c, "care_plan", care_plan_generation_node(st[c], o, now))
          /\ env' = [env EXCEPT ![c].txt = o, ![c].t6 = now, ![c].calls = Called(c, "care_plan")]

FinalReport(c) ==
    /\ RunNode(c, "final_report", report_compilation_node(st[c], now))
    /\ env' = [env EXCEPT ![c].t7 = now, ![c].calls = Called(c, "final_report")]

\* final_state = self.graph.invoke(...); return final_state
Return(c) ==
    /\ pc[c] = END
    /\ result' = [result EXCEPT ![c] = st[c]]
    /\ pc' = [pc EXCEPT ![c] = "returned"]
    /\ UNCHANGED <<graph, client, now, runs, inp, st, upd, executed, env, response, parsed, call, ui>>

\* the steps of caller c inside a call
Step(c) ==
    \/ ClearGraph(c)
    \/ BuildGraph(c)
    \/ CheckGraph(c)
    \/ Invoke(c)
    \/ Preprocess(c)
    \/ InitialAnalysis(c)
    \/ DiseaseIdentification(c)
    \/ RootCause(c)
    \/ Medications(c)
    \/ CarePlan(c)
    \/ FinalReport(c)
    \/ Return(c)

\* the images and image types of the callers of the concurrent specification
ConcImages == { NoImage, Img("L", 1024, 1024) }

ConcImageTypes == { "x-ray" }

ConcImagePaths == { "scan.png" }

\* one caller at a time
NextSeq ==
    \/ Tick
    \/ \E c \in SeqCallers : Call(c, Images, ImageTypes, ImagePaths)
    \/ \E c \in SeqCallers : Step(c)

\* two callers whose calls interleave
NextConc ==
    \/ Tick
    \/ \E c \in Callers : Call(c, ConcImages, ConcImageTypes, ConcImagePaths)
    \/ \E c \in Callers : Step(c)

\* one thread calls the agent, one analysis after the other
Spec == Init /\ [][NextSeq]_vars

\* as Spec, with any Model Client in the place of GoogleGeminiModel
FaultSpec == InitWith(AllClientKinds) /\ [][NextSeq]_vars

\* two sessions of the application call the one cached agent
ConcSpec == InitWith({ "simulation" }) /\ [][NextConc]_vars

-----------------------------------------------------------------------------
(* The Response Parser on its own: a combined response is written, line    *)
(* by line or entry by entry in the format that the prompt of              *)
(* care_plan_generation_node asks for, and then handed to the three        *)
(* functions that care_plan_generation_node applies to it.                 *)

\* lines of a response written line by line
MaxLines == 4

\* medication entries of a response written in the format of the prompt
MaxEntries == 3

\* the lines a response is written from
FreeLines ==
    { Marker(MED), Marker(CARE), Marker(DOC),
      Line(<< "" >>),
      Line(<< "Name", " Amoxicillin" >>),
      Line(<< "Name", " N/A" >>),
      Line(<< "Dose", " 400mg" >>),
      Line(<< "Duration", " 7-10 days" >>),
      Line(<< "Warning", " Penicillin allergy" >>),
      Line(<< "Primary Diagnosis", " Pneumonia" >>),
      Line(<< "- Take all medications as prescribed" >>) }

\* the four fields of a medication entry that follow its name, in the
\* order of the prompt, and the labels of their lines
OtherKeys == << "dosage", "duration", "type", "contraindications" >>

Label(k) ==
    CASE k = "name" -> "Name"
      [] k = "dosage" -> "Dosage"
      [] k = "duration" -> "Duration"
      [] k = "type" -> "Type"
      [] OTHER -> "Contraindications"

\* what follows the colon of the line "Label: value"
AfterColon(v) ==
    CASE v = "Amoxicillin" -> " Amoxicillin"
      [] v = "500mg twice daily" -> " 500mg twice daily"
      [] v = "7-10 days" -> " 7-10 days"
      [] v = "Antibiotic" -> " Antibiotic"
      [] v = "Penicillin allergy" -> " Penicillin allergy"
      [] v = "Ibuprofen" -> " Ibuprofen"
      [] v = "400mg" -> " 400mg"
      [] v = "5 days" -> " 5 days"
      [] v = "Analgesic" -> " Analgesic"
      [] v = "Avoid with anticoagulants" -> " Avoid with anticoagulants"
      [] OTHER -> v

\* the values of the two medications that the responses name
ValuesA ==
    [name |-> "Amoxicillin", dosage |-> "500mg twice daily", duration |-> "7-10 days",
     type |-> "Antibiotic", contraindications |-> "Penicillin allergy"]

ValuesB ==
    [name |-> "Ibuprofen", dosage |-> "400mg", duration |-> "5 days",
     type |-> "Analgesic", contraindications |-> "Avoid with anticoagulants"]

\* an entry: the values of a medication and those of the four fields that
\* the entry gives
Entry(vals, given) == [vals |-> vals, given |-> given]

AllGiven == { OtherKeys[i] : i \in 1..Len(OtherKeys) }

FullEntries == { Entry(v, AllGiven) : v \in { ValuesA, ValuesB } }

AnyEntries == { Entry(v, g) : v \in { ValuesA, ValuesB }, g \in SUBSET AllGiven }

RECURSIVE FieldLines(_, _)
\* the lines of the fields that entry e gives, from the i-th on
FieldLines(e, i) ==
    IF i > Len(OtherKeys) THEN <<>>
    ELSE (IF OtherKeys[i] \in e.given
          THEN << Line(<< Label(OtherKeys[i]), AfterColon(e.vals[OtherKeys[i]]) >>) >>
          ELSE <<>>) \o FieldLines(e, i + 1)

\* the lines of entry e
EntryLines(e) == << Line(<< "Name", AfterColon(e.vals.name) >>) >> \o FieldLines(e, 1)

\* the heading of the i-th entry, "MEDICATION i:"
Heading(i) ==
    CASE i = 1 -> Line(<< "MEDICATION 1", "" >>)
      [] i = 2 -> Line(<< "MEDICATION 2", "" >>)
      [] OTHER -> Line(<< "MEDICATION 3", "" >>)

\* how the entries of a response are set apart: by nothing, by a blank
\* line, or by a blank line and a heading as in the prompt
Layouts == { "dense", "blank", "headed" }

RECURSIVE EntriesLines(_, _, _)
EntriesLines(es, i, layout) ==
    IF i > Len(es) THEN <<>>
    ELSE (CASE layout = "headed" -> << Line(<< "" >>), Heading(i) >>
            [] layout = "blank" -> << Line(<< "" >>) >>
            [] OTHER -> <<>>)
         \o EntryLines(es[i]) \o EntriesLines(es, i + 1, layout)

\* a response in the format of the prompt: the three markers in order, the
\* entries es in the medications section
PromptFormat(es, layout) ==
    << Marker(MED) >> \o EntriesLines(es, 1, layout)
    \o (IF layout = "dense" THEN <<>> ELSE << Line(<< "" >>) >>)
    \o << Marker(CARE),
          Line(<< "" >>),
          Line(<< "Week 1 (Days 1-7)", "" >>),
          Line(<< "- Take all medications as prescribed" >>),
          Line(<< "" >>),
          Marker(DOC),
          Line(<< "" >>),
          Line(<< "Primary Diagnosis", " Pneumonia" >>) >>

RECURSIVE SeqsUpTo(_, _)
\* the sequences of 1 to n members of S
SeqsUpTo(S, n) ==
    IF n = 0 THEN {}
    ELSE LET shorter == SeqsUpTo(S, n - 1)
         IN  { << x >> : x \in S } \cup shorter \cup { Append(s, x) : s \in shorter, x \in S }

\* the entries of the responses in the format of the prompt: complete
\* entries only, or one entry of any shape alone, after a complete entry,
\* before one, or between two
EntrySeqs ==
    SeqsUpTo(FullEntries, MaxEntries)
    \cup { << e >> : e \in AnyEntries }
    \cup { << Entry(ValuesA, AllGiven), e >> : e \in AnyEntries }
    \cup { << e, Entry(ValuesB, AllGiven) >> : e \in AnyEntries }
    \cup { << Entry(ValuesA, AllGiven), e, Entry(ValuesB, AllGiven) >> : e \in AnyEntries }

FormattedResponses ==
    { [kind |-> "entries", entries |-> es, text |-> PromptFormat(es, layout)] :
        es \in EntrySeqs, layout \in Layouts }

ParseInit ==
    /\ AgentInit({ "simulation" })
    /\ graph = NoGraph
    /\ response \in { NoResponse } \cup FormattedResponses
    /\ parsed = NotParsed
    /\ call = NoCall
    /\ ui = NoSession

\* one more line of a response written line by line
WriteLine ==
    /\ ~ parsed.done
    /\ response.kind = "free"
    /\ Len(response.text) < MaxLines
    /\ \E l \in FreeLines : response' = [response EXCEPT !.text = Append(@, l)]
    /\ UNCHANGED <<graph, client, now, pc, runs, inp, st, upd, executed, env, result, parsed, call, ui>>

\* the three calls of care_plan_generation_node on the response
Parse ==
    /\ ~ parsed.done
    /\ parsed' =
          [done |-> TRUE,
           section |-> med_section(response.text),
           medications |-> _parse_combined_medications(response.text),
           two_week_plan |-> _extract_care_plan_section(response.text),
           doctor_summary |-> _extract_doctor_summary_section(response.text, Second(now))]
    /\ UNCHANGED <<graph, client, now, pc, runs, inp, st, upd, executed, env, result, response, call, ui>>

ParseNext == WriteLine \/ Parse

ParseSpec == ParseInit /\ [][ParseNext]_vars

-----------------------------------------------------------------------------
(* What the claims speak of.                                               *)

\* the names of the nodes that caller c's workflow has run, in order
ExecutedNodes(c) == [i \in 1..Len(executed[c]) |-> executed[c][i].node]

\* the nodes of caller c's analysis that returned status=failed
FailedNodes(c) ==
    { executed[c][i].node : i \in { j \in 1..Len(executed[c]) : executed[c][j].status = "failed" } }

RECURSIVE SumNotices(_, _)
\* the number of notices that the first n nodes run emitted
SumNotices(log, n) == IF n = 0 THEN 0 ELSE log[n].notices + SumNotices(log, n - 1)

InWorkflow(c) == pc[c] \in { Nodes[i] : i \in 1..Len(Nodes) } \cup { END }

InCall(c) == pc[c] \notin { "idle", "returned" }

\* the state a fresh analysis of input i starts from
FreshState(i) ==
    [image |-> i.image, image_type |-> LowerType(i.image_type), image_path |-> i.image_path,
     messages |-> << HumanMessage("Analyzing image: ", i.image_type) >>]

\* the terminal state of an analysis of input i that runs alone on a fresh
\* agent whose collaborators answer as recorded in e
RunAlone(i, e) ==
    LET s0 == FreshState(i)
        s1 == Merge(s0, preprocess_image_node(s0, e.t1))
        s2 == Merge(s1, initial_analysis_node(s1, e.img))
        s3 == Merge(s2, disease_identification_node(s2))
        s4 == Merge(s3, root_cause_analysis_node(s3))
        s5 == Merge(s4, medication_recommendation_node(s4))
        s6 == Merge(s5, care_plan_generation_node(s5, e.txt, e.t6))
    IN  Merge(s6, report_compilation_node(s6, e.t7))

-----------------------------------------------------------------------------
\* C1: every analysis runs the seven nodes once each in the order of the
\* graph (what it has run is always a prefix of the seven, the node it runs
\* next is the one that follows), it can always take its next step, and
\* it reaches END, and returns, only after all seven.
C1_SevenStagesInOrder ==
    \A c \in Callers :
        /\ Len(executed[c]) <= Len(Nodes)
        /\ ExecutedNodes(c) = SubSeq(Nodes, 1, Len(executed[c]))
        /\ pc[c] \in { Nodes[i] : i \in 1..Len(Nodes) } => pc[c] = Nodes[Len(executed[c]) + 1]
        /\ pc[c] \in { END, "returned" } => ExecutedNodes(c) = Nodes
        /\ InCall(c) => ENABLED Step(c)

C1_Witness == \E c \in Callers : pc[c] = END /\ ExecutedNodes(c) = Nodes

\* C2: whatever failed upstream (absent image, Model Client call raising in
\* initial_analysis and/or care_plan), the final_report node runs and the
\* terminal state holds a final_report.
C2_ReportAlwaysCompiled ==
    \A c \in Callers :
        /\ pc[c] = END => "final_report" \in DOMAIN st[c]
        /\ pc[c] = "returned" =>
              /\ Len(executed[c]) = Len(Nodes)
              /\ executed[c][Len(Nodes)].node = "final_report"
              /\ "final_report" \in DOMAIN result[c]

\* the three upstream failures at once
C2_Witness ==
    \E c \in Callers :
        /\ pc[c] = "returned"
        /\ inp[c].image = NoImage
        /\ env[c].img.raised
        /\ env[c].txt.raised
        /\ FailedNodes(c) = { "preprocess", "initial_analysis", "care_plan" }
        /\ "final_report" \in DOMAIN result[c]

\* C3: a terminal status of completed means that no node of the analysis
\* returned status=failed.
C3_CompletedMeansNoFailure ==
    \A c \in Callers :
        (pc[c] = "returned" /\ Get(result[c], "status", "") = "completed")
            => FailedNodes(c) = {}

\* C4: no call raises to its caller, what a call returns has a status, and
\* has an error whenever that status is not completed.
C4_AlwaysStatusAndError ==
    \A c \in Callers :
        /\ pc[c] # "raised"
        /\ pc[c] = "returned" =>
              /\ "status" \in DOMAIN result[c]
              /\ result[c].status # "completed" => "error" \in DOMAIN result[c]

C4_Witness ==
    \E c \in Callers :
        /\ pc[c] = "returned"
        /\ result[c].status = "failed"
        /\ "error" \in DOMAIN result[c]

\* C5: the status returned differs from completed only if the final_report
\* node itself failed, or if preprocess failed and left the state otherwise
\* unpopulated.
C5_NotCompletedOnlyIf ==
    \A c \in Callers :
        (pc[c] = "returned" /\ Get(result[c], "status", "") # "completed") =>
            \/ /\ Len(executed[c]) = Len(Nodes)
               /\ executed[c][Len(Nodes)].status = "failed"
            \/ /\ "preprocess" \in FailedNodes(c)
               /\ DOMAIN result[c] \subseteq InputFields \cup { "messages", "error", "status" }

\* C6: each of two analyses that run concurrently on the shared agent returns
\* the terminal state it would return when run alone.
C6_NonInterference ==
    \A c \in Callers :
        pc[c] = "returned" => result[c] = RunAlone(inp[c], env[c])

\* C7: an analysis starts from a state that holds only its own image, image
\* type, image path and one initial message, and its terminal state is the
\* one a fresh agent would return for its input and its collaborators'
\* answers: nothing of an earlier analysis is in it.
C7_NoLeakBetweenAnalyses ==
    \A c \in Callers :
        /\ pc[c] = "preprocess" => st[c] = FreshState(inp[c])
        /\ InWorkflow(c) => Len(st[c].messages) = 1 + Len(executed[c])
        /\ pc[c] = "returned" => result[c] = RunAlone(inp[c], env[c])

\* a second analysis that ends without the error of any earlier one
C7_Witness ==
    \E c \in Callers :
        /\ runs[c] >= 2
        /\ pc[c] = "returned"
        /\ "error" \notin DOMAIN result[c]
        /\ Len(result[c].messages) = 1 + Len(Nodes)

\* C8: when a node's update is merged, every field of the update but the log
\* takes the update's value, every field the update does not name is
\* unchanged, and the log becomes the previous log followed by the update's
\* messages.
C8_MergePolicy ==
    [][ \A c \in Callers :
          (InWorkflow(c) /\ executed'[c] # executed[c]) =>
              LET s == st[c]
                  u == upd'[c]
                  n == st'[c]
              IN  /\ DOMAIN n = DOMAIN s \cup DOMAIN u
                  /\ \A k \in DOMAIN u \ { "messages" } : n[k] = u[k]
                  /\ \A k \in DOMAIN s \ DOMAIN u : n[k] = s[k]
                  /\ n["messages"] = s["messages"] \o Get(u, "messages", <<>>)
                  /\ SubSeq(n["messages"], 1, Len(s["messages"])) = s["messages"] ]_vars

\* a merge that has overwritten a field written before and has extended the log
C8_Witness ==
    \E c \in Callers :
        /\ Len(executed[c]) >= 2
        /\ InWorkflow(c)
        /\ st[c].status = upd[c].status
        /\ st[c].status # executed[c][1].status
        /\ Len(st[c].messages) = 1 + Len(executed[c])

\* C9 as stated: after the seven nodes the length of the log is the sum of
\* the notices the nodes emitted.
C9_LogLengthIsSumOfNotices ==
    \A c \in Callers :
        pc[c] = END => Len(st[c].messages) = SumNotices(executed[c], Len(executed[c]))

\* C9 amended: after the seven nodes the length of the log is one, for the
\* initial message that analyze_medical_image puts in the log, plus the sum
\* of the notices the nodes emitted.
C9_LogLengthIsOnePlusSum ==
    \A c \in Callers :
        pc[c] = END => Len(st[c].messages) = 1 + SumNotices(executed[c], Len(executed[c]))

C9_Witness ==
    \E c \in Callers :
        /\ pc[c] = END
        /\ SumNotices(executed[c], Len(executed[c])) = Len(Nodes)
        /\ Len(st[c].messages) = 1 + Len(Nodes)

\* C10: a field that is in the state after a node is in the state after every
\* later node, and in the terminal state returned.
C10_FieldsNeverErased ==
    [][ \A c \in Callers :
          InWorkflow(c) =>
              /\ DOMAIN st[c] \subseteq DOMAIN st'[c]
              /\ pc'[c] = "returned" => DOMAIN st[c] \subseteq DOMAIN result'[c] ]_vars

\* the error written by preprocess is still there beside the final report
C10_Witness ==
    \E c \in Callers :
        /\ pc[c] = "returned"
        /\ executed[c][1].status = "failed"
        /\ { "error", "final_report", "confidence_scores" } \subseteq DOMAIN result[c]

\* what the preprocess node makes of a usable image
Normalised(image) == Thumbnail(ConvertRGB(image))

\* C11 as stated: no node's update names an input field (image, image_type,
\* image_path), and the three hold what the initial state gave them.
C11_InputFieldsNeverWritten ==
    \A c \in Callers :
        InWorkflow(c) =>
            /\ DOMAIN upd[c] \cap InputFields = {}
            /\ st[c].image = inp[c].image
            /\ st[c].image_type = LowerType(inp[c].image_type)
            /\ st[c].image_path = inp[c].image_path

\* C11 amended: no node's update names image_type or image_path, which hold
\* what the initial state gave them; the image is named by the update of the
\* preprocess node only, and only when it succeeds, which puts the image in
\* RGB and within max_size in its place; a failed preprocess and every
\* later node leave the image as it is.
C11_OnlyPreprocessWritesImage ==
    \A c \in Callers :
        InWorkflow(c) =>
            /\ DOMAIN upd[c] \cap { "image_type", "image_path" } = {}
            /\ st[c].image_type = LowerType(inp[c].image_type)
            /\ st[c].image_path = inp[c].image_path
            /\ "image" \in DOMAIN upd[c] =>
                  /\ Len(executed[c]) = 1
                  /\ upd[c].status = "preprocessing_complete"
            /\ st[c].image =
                  IF Len(executed[c]) >= 1 /\ executed[c][1].status # "failed"
                  THEN Normalised(inp[c].image)
                  ELSE inp[c].image

\* an analysis that is through with an image other than the one it was given
C11_Witness ==
    \E c \in Callers :
        /\ pc[c] = END
        /\ st[c].image # inp[c].image
        /\ st[c].image.mode = "RGB"
        /\ st[c].image_type = LowerType(inp[c].image_type)

\* the care_plan node of caller c's analysis has run
AfterCarePlan(c) == InWorkflow(c) /\ Len(executed[c]) >= 6

\* C12: once the care_plan node has run, the state holds
\* recommended_medicines, two_week_plan and doctor_summary, and the list of
\* medicines is not empty; when the node's Model Client call raised, the
\* node still returned an update, which holds the one fallback medicine, the
\* fixed care plan and the fixed doctor summary, status=failed and the error.
C12_CarePlanOutputsAlwaysPresent ==
    \A c \in Callers :
        /\ AfterCarePlan(c) =>
              /\ { "recommended_medicines", "two_week_plan", "doctor_summary" }
                    \subseteq DOMAIN st[c]
              /\ Len(st[c].recommended_medicines) >= 1
              /\ executed[c][6].node = "care_plan"
        /\ (pc[c] = "final_report" /\ env[c].txt.raised) =>
              /\ Len(upd[c].recommended_medicines) = 1
              /\ upd[c].recommended_medicines[1].name = << "Consult Healthcare Provider" >>
              /\ DOMAIN upd[c].recommended_medicines[1] = MedKeys
              /\ upd[c].two_week_plan.hdr =
                    "Please consult with your healthcare provider for a personalized care plan."
              /\ upd[c].doctor_summary.hdr =
                    "Medical analysis completed. Please review full report for details."
              /\ upd[c].status = "failed"
              /\ upd[c].error = env[c].txt.err
              /\ st[c].status = "failed" /\ st[c].error = env[c].txt.err

\* the care_plan node has just run and its Model Client call raised
C12_Witness ==
    \E c \in Callers :
        /\ pc[c] = "final_report"
        /\ env[c].txt.raised
        /\ st[c].status = "failed"
        /\ Len(st[c].recommended_medicines) = 1

\* the node that ran last in caller c's analysis, "" before the first
LastNode(c) == IF Len(executed[c]) = 0 THEN "" ELSE executed[c][Len(executed[c])].node

\* the body of the node that ran last failed: the pixel data could not be
\* loaded, or the Model Client call raised
BodyFailed(c) ==
    \/ LastNode(c) = "preprocess" /\ inp[c].image.kind = "corrupt"
    \/ LastNode(c) = "initial_analysis" /\ env[c].img.raised
    \/ LastNode(c) = "care_plan" /\ env[c].txt.raised

\* C13: no call ends by a node raising; every node that ran returned an
\* update, which holds a status and a notice, and the workflow went on to
\* the node's successor; when the node's body failed, the update holds
\* status=failed and a non-empty error, the text of the exception.
C13_NoStageRaises ==
    \A c \in Callers :
        /\ pc[c] # "raised"
        /\ (InWorkflow(c) /\ Len(executed[c]) >= 1) =>
              /\ { "status", "messages" } \subseteq DOMAIN upd[c]
              /\ upd[c].status # ""
              /\ Len(upd[c].messages) = 1
              /\ pc[c] = Edge(LastNode(c))
              /\ upd[c].status = "failed" =>
                    "error" \in DOMAIN upd[c] /\ upd[c].error # ""
              /\ BodyFailed(c) =>
                    /\ upd[c].status = "failed"
                    /\ "error" \in DOMAIN upd[c]
                    /\ upd[c].error \in { LoadError, ClientError }
                    /\ upd[c].messages[1].a = upd[c].error

\* an analysis in which the bodies of three nodes failed and that went
\* through all seven nodes nevertheless
C13_Witness ==
    \E c \in Callers :
        /\ pc[c] = END
        /\ inp[c].image.kind = "corrupt"
        /\ env[c].img.raised
        /\ env[c].txt.raised
        /\ FailedNodes(c) = { "preprocess", "initial_analysis", "care_plan" }

\* C14: when the image is absent, the update of the preprocess node holds
\* status=failed, a non-empty error and its notice and nothing else (no
\* analysis_id, no timestamp, no image, no analysis text), so that the state
\* after the node holds no result field and no metadata field.
C14_AbsentImageFailsPreprocess ==
    \A c \in Callers :
        (pc[c] = "initial_analysis" /\ inp[c].image.kind = "none") =>
            /\ upd[c].status = "failed"
            /\ "error" \in DOMAIN upd[c] /\ upd[c].error # ""
            /\ DOMAIN upd[c] = { "error", "status", "messages" }
            /\ DOMAIN st[c] \cap (ResultFields \cup MetaFields) = {}
            /\ st[c].status = "failed"
            /\ st[c].image = inp[c].image

\* the preprocess node has run on an absent image
C14_Witness ==
    \E c \in Callers :
        /\ pc[c] = "initial_analysis"
        /\ inp[c].image.kind = "none"
        /\ LastNode(c) = "preprocess"
        /\ st[c].error = "No image provided"

\* C15: an analysis that went through its seven nodes has called the Model
\* Client exactly twice, analyze_image in initial_analysis and then
\* generate_text_response in care_plan; at every point of an analysis the
\* calls made so far are those of the initial_analysis and care_plan nodes
\* already run, so that no other node has made a call.
C15_TwoClientCalls ==
    \A c \in Callers :
        InWorkflow(c) =>
            /\ env[c].calls =
                  (IF Len(executed[c]) >= 2
                   THEN << [node |-> "initial_analysis", method |-> "analyze_image"] >>
                   ELSE <<>>)
                  \o
                  (IF Len(executed[c]) >= 6
                   THEN << [node |-> "care_plan", method |-> "generate_text_response"] >>
                   ELSE <<>>)
            /\ pc[c] = END => Len(env[c].calls) = 2

\* an analysis that is through, with its two calls made
C15_Witness ==
    \E c \in Callers :
        /\ pc[c] = END
        /\ Len(env[c].calls) = 2
        /\ env[c].calls[1].method = "analyze_image"
        /\ env[c].calls[2].method = "generate_text_response"

-----------------------------------------------------------------------------
(* The claims about the Response Parser, checked under ParseSpec.          *)

\* a line that names a medicine: it holds "name:" and a name after its
\* first colon that is neither empty nor a placeholder
NamesMedicine(l) ==
    /\ l.m = ""
    /\ LET segs == StripSegs(l.segs)
       IN  /\ Len(segs) >= 2
           /\ "name" \in KeysOf(segs)
           /\ ~ IsEmptyValue(ValueOf(segs))
           /\ ~ IsPlaceholder(ValueOf(segs))

\* the response was written in the format of the prompt and every one of
\* its entries gives the five fields
AllEntriesComplete ==
    /\ response.kind = "entries"
    /\ \A i \in 1..Len(response.entries) : response.entries[i].given = AllGiven

\* C16: for every combined response the list of medications that the parser
\* returns is not empty and each of its records has a name; when no line of
\* the part scanned names a medicine, the list is the one fallback record,
\* named "Consult Healthcare Provider", and otherwise it holds no fallback.
C16_MedicationsNeverEmpty ==
    parsed.done =>
        /\ Len(parsed.medications) >= 1
        /\ \A i \in 1..Len(parsed.medications) :
              /\ "name" \in DOMAIN parsed.medications[i]
              /\ parsed.medications[i].name # << "" >>
        /\ IF \E i \in 1..Len(parsed.section) : NamesMedicine(parsed.section[i])
           THEN \A i \in 1..Len(parsed.medications) :
                   parsed.medications[i].name # << "Consult Healthcare Provider" >>
           ELSE /\ Len(parsed.medications) = 1
                /\ parsed.medications[1].name = << "Consult Healthcare Provider" >>

\* a response whose only name is a placeholder, parsed to the fallback
C16_Witness ==
    /\ parsed.done
    /\ \E i \in 1..Len(response.text) : response.text[i] = Line(<< "Name", " N/A" >>)
    /\ Len(parsed.medications) = 1
    /\ parsed.medications[1].name = << "Consult Healthcare Provider" >>

\* C17: the fallback record that the parser returns when it extracts no
\* usable record equals, in its five fields, the record that the care_plan
\* node writes when its Model Client call raises.
C17_FallbackRecordsIdentical ==
    (parsed.done /\ parsed.medications[1].name = << "Consult Healthcare Provider" >>) =>
        LET emergency ==
                care_plan_generation_node(EmptyState, RaisedText(ClientError), now)
                    .recommended_medicines[1]
        IN  \A k \in MedKeys : parsed.medications[1][k] = emergency[k]

\* C18: for a response with the three markers and n >= 1 complete entries,
\* the parser returns n records, in the order of the entries, each field
\* holding the value written in the entry.
C18_CompleteEntriesParsed ==
    (parsed.done /\ AllEntriesComplete) =>
        /\ Len(parsed.medications) = Len(response.entries)
        /\ \A i \in 1..Len(response.entries) :
              /\ DOMAIN parsed.medications[i] = MedKeys
              /\ \A k \in MedKeys :
                    parsed.medications[i][k] = << response.entries[i].vals[k] >>

\* three complete entries parsed to three records
C18_Witness ==
    /\ parsed.done
    /\ AllEntriesComplete
    /\ Len(response.entries) = 3
    /\ Len(parsed.medications) = 3
    /\ parsed.medications[3].type \in { << "Antibiotic" >>, << "Analgesic" >> }

\* the default of a field that an entry does not give
DefaultOf(k) ==
    CASE k = "dosage" -> "As prescribed by physician"
      [] k = "duration" -> "As directed"
      [] k = "type" -> "Medication"
      [] OTHER -> "Consult healthcare provider"

\* C19: every record returned for an entry holds, in each of dosage,
\* duration, type and contraindications, the value that the entry gives, or
\* the field's default when the entry does not give the field; in a
\* response written line by line a record's field holds the value of one of
\* the lines or the default.
C19_MissingFieldsGetDefaults ==
    parsed.done =>
        /\ response.kind = "entries" =>
              /\ Len(parsed.medications) = Len(response.entries)
              /\ \A i \in 1..Len(response.entries) :
                    LET e == response.entries[i]
                        r == parsed.medications[i]
                    IN  /\ DOMAIN r = MedKeys
                        /\ r.name = << e.vals.name >>
                        /\ \A k \in AllGiven :
                              r[k] = IF k \in e.given THEN << e.vals[k] >>
                                     ELSE << DefaultOf(k) >>
        /\ response.kind = "free" =>
              \A i \in 1..Len(parsed.medications) :
                  LET r == parsed.medications[i] IN
                  r.name # << "Consult Healthcare Provider" >> =>
                      /\ DOMAIN r = MedKeys
                      /\ r.dosage \in { << "400mg" >>, << DefaultOf("dosage") >> }
                      /\ r.duration \in { << "7-10 days" >>, << DefaultOf("duration") >> }
                      /\ r.type = << DefaultOf("type") >>
                      /\ r.contraindications \in
                            { << "Penicillin allergy" >>, << DefaultOf("contraindications") >> }

\* an entry without its Duration line, parsed to a record with the default
\* duration and the dosage given
C19_Witness ==
    /\ parsed.done
    /\ response.kind = "entries"
    /\ \E i \in 1..Len(response.entries) :
          /\ response.entries[i].given = AllGiven \ { "duration" }
          /\ parsed.medications[i].duration = << "As directed" >>
          /\ parsed.medications[i].dosage = << response.entries[i].vals.dosage >>

\* the lines between the first marker m of the text and the next marker
\* after it, or the end of the text
Between(text, m) ==
    LET i == IndexOfFrom(text, m, 1)
        later == { j \in (i + 1)..Len(text) : text[j].m # "" }
        j == IF later = {} THEN Len(text) + 1
             ELSE CHOOSE x \in later : \A y \in later : x <= y
    IN  SubSeq(text, i + 1, j - 1)

\* C20: for every combined response, the part scanned for medications, the
\* care plan and the doctor summary are each the text between the section's
\* own marker and the next marker, or the end of the text.
C20_SectionsBetweenMarkers ==
    parsed.done =>
        /\ Contains(response.text, MED) =>
              parsed.section = Between(response.text, MED)
        /\ Contains(response.text, CARE) =>
              parsed.two_week_plan.body = StripText(Between(response.text, CARE))
        /\ Contains(response.text, DOC) =>
              parsed.doctor_summary.body = StripText(Between(response.text, DOC))

-----------------------------------------------------------------------------
\* C21 as stated: once the response is parsed, a section whose marker is
\* missing from the response holds its fixed default: the fallback medication
\* list, the default care-plan string, the default doctor-summary string.
C21_MissingMarkerGivesDefault ==
    parsed.done =>
        /\ ~ Contains(response.text, MED) =>
               parsed.medications = << ParserFallbackMed >>
        /\ ~ Contains(response.text, CARE) =>
               parsed.two_week_plan = Formatted(DefaultCarePlan, <<>>, NoTime)
        /\ ~ Contains(response.text, DOC) =>
               parsed.doctor_summary = Formatted(DefaultDoctorSummary, <<>>, NoTime)

\* C21: once the response is parsed, the parse has not failed (the three
\* results are there, the medication list is not empty); a missing care-plan
\* or doctor-summary marker gives that section's default string; a missing
\* medications marker makes the whole response the text that is scanned for
\* medications, and the fallback list is returned only when that scan finds
\* no usable medication; a section whose marker is present is extracted
\* whichever other markers are missing.
C21_MissingMarkerDegrades ==
    parsed.done =>
        /\ parsed.medications # <<>>
        /\ ~ Contains(response.text, CARE) =>
               parsed.two_week_plan = Formatted(DefaultCarePlan, <<>>, NoTime)
        /\ ~ Contains(response.text, DOC) =>
               parsed.doctor_summary = Formatted(DefaultDoctorSummary, <<>>, NoTime)
        /\ ~ Contains(response.text, MED) =>
               parsed.medications =
                   IF _parse_medication_response(response.text) = <<>>
                   THEN << ParserFallbackMed >>
                   ELSE _parse_medication_response(response.text)
        /\ Contains(response.text, CARE) =>
               parsed.two_week_plan.hdr = "## TWO-WEEK CARE PLAN"
        /\ Contains(response.text, DOC) =>
               /\ parsed.doctor_summary.hdr = "# CLINICAL SUMMARY FOR HEALTHCARE PROVIDERS"
               /\ parsed.doctor_summary.ts = Second(now)

\* a parsed response without the medications marker, with the care-plan
\* marker, whose lines name a medicine: the medicine is returned, not the
\* fallback list, and the care plan is extracted
C21_Witness ==
    /\ parsed.done
    /\ ~ Contains(response.text, MED)
    /\ Contains(response.text, CARE)
    /\ ~ Contains(response.text, DOC)
    /\ parsed.medications # << ParserFallbackMed >>
    /\ parsed.two_week_plan.hdr = "## TWO-WEEK CARE PLAN"
    /\ parsed.doctor_summary = Formatted(DefaultDoctorSummary, <<>>, NoTime)

-----------------------------------------------------------------------------
\* C22: compiling the report again from the terminal state that an analysis
\* returned, at whatever moment, yields the report that the analysis holds.
C22_CompileTwiceIdentical ==
    \A c \in Callers :
        (pc[c] = "returned" /\ Has(result[c], "final_report")) =>
            _compile_final_report(result[c], now) = result[c].final_report

-----------------------------------------------------------------------------
(* The Report Compiler on its own: report_compilation_node is run on a     *)
(* state that lacks any subset of the fields that the template reads.      *)

\* the fields that _compile_final_report reads with state.get or tests with in
OptionalFields ==
    { "analysis_id", "timestamp", "image_type", "comprehensive_analysis",
      "initial_analysis", "confidence_scores", "recommended_medicines",
      "two_week_plan" }

\* a value of field k as the nodes write it
SampleValue(k) ==
    CASE k = "analysis_id" -> AnalysisId(0)
      [] k = "timestamp" -> 0
      [] k = "image_type" -> "x-ray"
      [] k = "comprehensive_analysis" -> SimInitialAnalysis
      [] k = "initial_analysis" -> SimGeneric
      [] k = "confidence_scores" -> FixedConfidenceScores
      [] k = "recommended_medicines" -> << NodeFallbackMed >>
      [] k = "two_week_plan" -> Formatted(DefaultCarePlan, <<>>, NoTime)
      [] OTHER -> <<>>

\* the states that hold a subset of the optional fields (and the message log)
ReportStates ==
    { [k \in K \cup { "messages" } |-> SampleValue(k)] : K \in SUBSET OptionalFields }

\* the graph has reached its last node with state s
ReportInit ==
    /\ graph = Graph(0)
    /\ client = "simulation"
    /\ now = 0
    /\ pc = [c \in Callers |-> IF c \in SeqCallers THEN "final_report" ELSE "idle"]
    /\ runs = [c \in Callers |-> IF c \in SeqCallers THEN 1 ELSE 0]
    /\ inp = [c \in Callers |-> NoInput]
    /\ st \in [Callers -> ReportStates \cup { EmptyState }]
    /\ \A c \in Callers : st[c] = EmptyState <=> c \notin SeqCallers
    /\ upd = [c \in Callers |-> EmptyState]
    /\ executed = [c \in Callers |-> <<>>]
    /\ env = [c \in Callers |-> NoEnv]
    /\ result = [c \in Callers |-> EmptyState]
    /\ response = NoResponse
    /\ parsed = NotParsed
    /\ call = NoCall
    /\ ui = NoSession

ReportNext ==
    \/ Tick
    \/ \E c \in SeqCallers : FinalReport(c)
    \/ \E c \in SeqCallers : Return(c)

ReportSpec == ReportInit /\ [][ReportNext]_vars

\* the state that the compiler was given
Compiled(c) == pc[c] \in { END, "returned" } /\ Len(executed[c]) = 1

\* C23: whichever optional fields the state lacks, the compiler does not
\* raise (the node returns status completed and a report), and each section
\* of the report whose source field is absent holds a placeholder: the
\* identifier, the time of generation, the image type, the analysis text,
\* the confidence scores, the medications and the care plan.
C23_PlaceholderForEveryAbsentField ==
    \A c \in SeqCallers :
        Compiled(c) =>
            /\ upd[c].status = "completed"
            /\ Has(st[c], "final_report")
            /\ LET s == st[c]
                   report == st[c].final_report
               IN  /\ ~ Has(s, "analysis_id") => report.report_id = NoAnalysisId
                   /\ ~ Has(s, "timestamp") => report.generated \in Times
                   /\ ~ Has(s, "image_type") => report.image_type = "UNKNOWN"
                   /\ (~ Has(s, "comprehensive_analysis") /\ ~ Has(s, "initial_analysis"))
                          => report.analysis = "No analysis available"
                   /\ ~ Has(s, "recommended_medicines")
                          => report.medications.none = "No medication recommendations available."
                   /\ ~ Has(s, "two_week_plan")
                          => report.care_plan = Formatted("No care plan available", <<>>, NoTime)
                   /\ ~ Has(s, "confidence_scores") => report.scores # {}

-----------------------------------------------------------------------------
\* the thread that is inside analyze_medical_image keeps running: the steps
\* of a call (graph build, the seven nodes, the return) are taken
LiveSpec == Spec /\ WF_vars(\E c \in SeqCallers : Step(c))

\* caller c's analysis is of a valid image of type x-ray, by a Model Client
\* without credentials (every response is the simulated one)
SimulatedXRay(c) ==
    /\ client = "simulation"
    /\ inp[c].image.kind = "ok"
    /\ inp[c].image_type = "x-ray"

\* what the end-to-end run yields: status completed, a report with the
\* title MEDICAL IMAGE ANALYSIS REPORT, at least one medication record
EndToEndResult(c) ==
    /\ pc[c] = "returned"
    /\ Get(result[c], "status", "") = "completed"
    /\ Has(result[c], "final_report")
    /\ result[c].final_report.title = "MEDICAL IMAGE ANALYSIS REPORT"
    /\ Has(result[c], "recommended_medicines")
    /\ Len(result[c].recommended_medicines) >= 1

\* C24: with a Model Client that returns its simulated responses, an
\* analysis of a valid image of type x-ray that has been started reaches its
\* return, and what it returns has status completed, a final report holding
\* the title "MEDICAL IMAGE ANALYSIS REPORT" and at least one medication.
C24_SimulatedEndToEnd ==
    \A c \in SeqCallers :
        /\ [](pc[c] = "returned" /\ SimulatedXRay(c) => EndToEndResult(c))
        /\ (pc[c] = "invoke" /\ SimulatedXRay(c)) ~> (SimulatedXRay(c) /\ EndToEndResult(c))

\* the 1024 x 1024 monochrome image, analysed as x-ray with simulated
\* responses: the fallback medication and the simulated analysis text
C24_Witness ==
    \E c \in SeqCallers :
        /\ SimulatedXRay(c)
        /\ inp[c].image = Img("L", 1024, 1024)
        /\ EndToEndResult(c)
        /\ result[c].final_report.analysis = SimInitialAnalysis
        /\ result[c].recommended_medicines = << ParserFallbackMed >>

-----------------------------------------------------------------------------
\* C25: no two analyses are assigned the same analysis identifier: the
\* identifiers that the preprocess stage wrote into the states of two
\* callers' analyses (running at once, or one after the other) differ.
C25_AnalysisIdsUnique ==
    \A c1, c2 \in Callers :
        (c1 # c2 /\ Has(st[c1], "analysis_id") /\ Has(st[c2], "analysis_id"))
            => st[c1].analysis_id # st[c2].analysis_id

-----------------------------------------------------------------------------
(* The preprocess stage on its own: preprocess_image_node is run on the    *)
(* initial state of an analysis of an image of any of the modes and of     *)
(* sizes below, at and above max_size.                                     *)

\* the small side lengths
MaxSmallSide == 3

\* monochrome, indexed, with alpha, three-channel
ImageModes == { "L", "P", "RGBA", "RGB" }

ImageSides ==
    (1..MaxSmallSide)
        \cup { max_size - 1, max_size, max_size + 1, 2 * max_size - 1, 2 * max_size,
               2 * max_size + MaxSmallSide, max_size * max_size }

AllImages ==
    { NoImage, CorruptImage } \cup { Img(mode, w, h) : mode \in ImageModes, w \in ImageSides, h \in ImageSides }

\* the choices of the upload page's "Select Image Type"
UIImageTypes == { "X-Ray", "MRI", "CT Scan", "ECG", "Ultrasound" }

\* the image types that reach analyze_medical_image: the page passes its
\* choice lower-cased, other callers pass what they like
SubmittedTypes == ImageTypes \cup { LowerType(t) : t \in UIImageTypes }

\* the image types that the state's schema names
EnumeratedTypes == { "x-ray", "mri", "ct-scan", "ecg", "ultrasound" }

\* the graph has been invoked on the initial state of an analysis
ImageInit ==
    /\ graph = Graph(0)
    /\ client = "simulation"
    /\ now = 0
    /\ pc = [c \in Callers |-> IF c \in SeqCallers THEN "preprocess" ELSE "idle"]
    /\ runs = [c \in Callers |-> IF c \in SeqCallers THEN 1 ELSE 0]
    /\ \E image \in AllImages, image_type \in SubmittedTypes :
          /\ inp = [c \in Callers |->
                       IF c \in SeqCallers
                       THEN [image |-> image, image_type |-> image_type, image_path |-> ""]
                       ELSE NoInput]
          /\ st = [c \in Callers |->
                      IF c \in SeqCallers THEN InitialState(image, image_type, "") ELSE EmptyState]
    /\ upd = [c \in Callers |-> EmptyState]
    /\ executed = [c \in Callers |-> <<>>]
    /\ env = [c \in Callers |-> NoEnv]
    /\ result = [c \in Callers |-> EmptyState]
    /\ response = NoResponse
    /\ parsed = NotParsed
    /\ call = NoCall
    /\ ui = NoSession

ImageNext ==
    \/ Tick
    \/ \E c \in SeqCallers : Preprocess(c)

ImageSpec == ImageInit /\ [][ImageNext]_vars

\* C26: the preprocess stage succeeds on every valid image, whatever its
\* size and its mode (L, P, RGBA, RGB), and the image that the state holds
\* after a successful preprocess stage is of mode RGB with neither side
\* longer than 512.
C26_PreprocessedImageFits ==
    \A c \in SeqCallers :
        (pc[c] = "initial_analysis" /\ LastNode(c) = "preprocess") =>
            /\ inp[c].image.kind = "ok" <=> upd[c].status = "preprocessing_complete"
            /\ upd[c].status = "preprocessing_complete" =>
                  /\ Has(upd[c], "image")
                  /\ st[c].image = upd[c].image
                  /\ st[c].image.mode = "RGB"
                  /\ st[c].image.w <= 512 /\ st[c].image.h <= 512
                  /\ st[c].image.w >= 1 /\ st[c].image.h >= 1

\* an image with alpha, wider than max_size and one pixel high, has been
\* preprocessed: it was converted and scaled down
C26_Witness ==
    \E c \in SeqCallers :
        /\ pc[c] = "initial_analysis"
        /\ inp[c].image = Img("RGBA", 2 * max_size, 1)
        /\ upd[c].status = "preprocessing_complete"
        /\ st[c].image = Img("RGB", max_size, 1)

-----------------------------------------------------------------------------
\* C27: the image type that the state of an analysis holds is one of the
\* five enumerated values x-ray, mri, ct-scan, ecg, ultrasound, whichever
\* image type the caller submitted (the five choices of the upload page
\* among them).
C27_ImageTypeEnumerated ==
    \A c \in SeqCallers :
        Has(st[c], "image_type") => st[c].image_type \in EnumeratedTypes

-----------------------------------------------------------------------------
(* The Model Client on its own: analyze_image and generate_text_response   *)
(* are called with a prompt, by a client without credentials or by one     *)
(* whose API call answers a text, answers nothing, or throws.              *)

\* the keywords a prompt may hold
MaxKeywords == 2

\* the keywords that _get_simulated_response looks for
Keywords ==
    { "initial", "analyze", "disease", "condition", "root cause", "etiology",
      "medication", "treatment", "care plan", "management" }

Prompts == { Prompt(K) : K \in { S \in SUBSET Keywords : Cardinality(S) <= MaxKeywords } }

ApiError == "503 Service Unavailable"

\* what self.model.generate_content does: it throws, or answers a response
\* whose text is empty, or answers a text
ApiAnalyses == { RaisedStr(ApiError), Returned("") } \cup { Returned(g) : g \in GeneratedAnalyses }

ApiResponses == { RaisedText(ApiError), Returned(<<>>) } \cup { Returned(g) : g \in GeneratedResponses }

\* the branch that a method of the client takes: use_simulation, the except
\* clause, "response and response.text" false or true
CondOf(kind, api, nothing) ==
    IF kind = "simulation" THEN "simulation"
    ELSE IF api.raised THEN "throws"
    ELSE IF api.text = nothing THEN "empty"
    ELSE "success"

AnalyzeImageCall ==
    \E prompt \in Prompts, api \in ApiAnalyses :
        /\ call' = [method |-> "analyze_image", prompt |-> prompt,
                    cond |-> CondOf(client, api, ""),
                    returned |-> Returned(analyze_image(CondOf(client, api, ""), prompt, api.text))]
        /\ UNCHANGED <<graph, client, now, pc, runs, inp, st, upd, executed, env, result, response, parsed, ui>>

GenerateTextCall ==
    \E prompt \in Prompts, api \in ApiResponses :
        /\ call' = [method |-> "generate_text_response", prompt |-> prompt,
                    cond |-> CondOf(client, api, <<>>),
                    returned |-> Returned(generate_text_response(CondOf(client, api, <<>>), api.text))]
        /\ UNCHANGED <<graph, client, now, pc, runs, inp, st, upd, executed, env, result, response, parsed, ui>>

ClientNext == AnalyzeImageCall \/ GenerateTextCall

ClientSpec == Init /\ [][ClientNext]_vars

\* ---------------------------------------------------------------------
\* The upload page: one browser session, its session state and its widgets
\* ---------------------------------------------------------------------

\* identifiers f"{uploaded_file.name}_{uploaded_file.size}" of the files a user may upload
FileIds == {"chest.png_2048", "knee.png_4096"}

\* what analyze_medical_image gives the page: a result whose status is
\* completed, a result of another status, or an exception
Outcomes == {"completed", "failed", "raised"}

\* the result the agent returns for the uploaded file
ResultOf(u, outcome) ==
    [status |-> outcome, file |-> u.uploaded_file, image_type |-> LowerType(u.image_type)]

\* a new upload keeps what the last analysis stored
NewFileCheckKeepsResults(u) ==
    IF u.uploaded_file # NoFile /\ u.last_uploaded_file # u.uploaded_file
    THEN [u EXCEPT !.last_uploaded_file = u.uploaded_file]
    ELSE u

\* the check for a new file at the top of the page; it ends in st.rerun(),
\* and the second pass finds the identifier unchanged
NewFileCheck(u) ==
    IF u.uploaded_file # NoFile /\ u.last_uploaded_file # u.uploaded_file
    THEN [u EXCEPT !.analysis_complete = FALSE,
                   !.analysis_result = NoResult,
                   !.last_uploaded_file = u.uploaded_file]
    ELSE u

\* the results block at the end of the page
Display(u) ==
    [u EXCEPT !.shown = IF u.analysis_complete /\ u.analysis_result # NoResult
                        THEN u.analysis_result ELSE NoResult]

\* a script run in which no button was pressed
Rerun(u) == Display(NewFileCheck([u EXCEPT !.pc = "idle", !.status_text = ""]))

\* every returned result counts as a success
StoreAnyResult(u, outcome) ==
    IF outcome = "raised"
    THEN [u EXCEPT !.status_text = "error"]
    ELSE [u EXCEPT !.analysis_result = ResultOf(u, outcome),
                   !.analysis_complete = TRUE]

\* what the page does with the outcome of the analysis
StoreResult(u, outcome) ==
    CASE outcome = "completed" ->
            [u EXCEPT !.analysis_result = ResultOf(u, outcome),
                      !.analysis_complete = TRUE]
      [] outcome = "raised" -> [u EXCEPT !.status_text = "error"]
      [] OTHER -> [u EXCEPT !.status_text = "failed"]

\* the user puts a file in the uploader, or replaces the one there; a run in
\* progress is stopped and the page runs again
Upload(f) ==
    /\ f # ui.uploaded_file
    /\ ui' = Rerun([ui EXCEPT !.uploaded_file = f])
    /\ UNCHANGED <<graph, client, now, pc, runs, inp, st, upd, executed, env, result, response, parsed, call>>

\* the user takes the file out of the uploader
RemoveFile ==
    /\ ui.uploaded_file # NoFile
    /\ ui' = Rerun([ui EXCEPT !.uploaded_file = NoFile])
    /\ UNCHANGED <<graph, client, now, pc, runs, inp, st, upd, executed, env, result, response, parsed, call>>

\* the user picks another image type
SelectType(t) ==
    /\ t # ui.image_type
    /\ ui' = Rerun([ui EXCEPT !.image_type = t])
    /\ UNCHANGED <<graph, client, now, pc, runs, inp, st, upd, executed, env, result, response, parsed, call>>

\* the Analyze button, enabled while a file is in the uploader
ClickAnalyze ==
    /\ ui.pc = "idle"
    /\ ui.uploaded_file # NoFile
    /\ LET u == NewFileCheck([ui EXCEPT !.status_text = ""])
       IN  ui' = IF u.last_uploaded_file # ui.last_uploaded_file
                 THEN Display(u)
                 ELSE [u EXCEPT !.analysis_complete = FALSE, !.pc = "analyzing"]
    /\ UNCHANGED <<graph, client, now, pc, runs, inp, st, upd, executed, env, result, response, parsed, call>>

\* the analysis ends; a completed one ends in st.rerun()
FinishAnalysis(outcome) ==
    /\ ui.pc = "analyzing"
    /\ ui' = Display(NewFileCheck([StoreResult(ui, outcome) EXCEPT !.pc = "idle"]))
    /\ UNCHANGED <<graph, client, now, pc, runs, inp, st, upd, executed, env, result, response, parsed, call>>

\* the Analyze New Image button under the results
ClickNewImage ==
    /\ ui.pc = "idle"
    /\ ui.shown # NoResult
    /\ ui' = Rerun([ui EXCEPT !.analysis_complete = FALSE, !.analysis_result = NoResult])
    /\ UNCHANGED <<graph, client, now, pc, runs, inp, st, upd, executed, env, result, response, parsed, call>>

UINext ==
    \/ \E f \in FileIds : Upload(f)
    \/ RemoveFile
    \/ \E t \in UIImageTypes : SelectType(t)
    \/ ClickAnalyze
    \/ \E outcome \in Outcomes : FinishAnalysis(outcome)
    \/ ClickNewImage

UISpec == Init /\ [][UINext]_vars

\* C28: whatever the condition of the client (no credentials, a text
\* answered, nothing answered, the API call throwing), analyze_image and
\* generate_text_response return (they do not raise) and what they return is
\* not the empty string.
C28_ClientReturnsNonEmpty ==
    call.method # "" =>
        /\ call.cond \in { "simulation", "success", "empty", "throws" }
        /\ ~ call.returned.raised
        /\ call.method = "analyze_image" => call.returned.text # ""
        /\ call.method = "generate_text_response" => call.returned.text # <<>>

\* the API answered nothing to analyze_image: the simulated findings are returned
C28_Witness ==
    /\ call.method = "analyze_image"
    /\ call.cond = "empty"
    /\ "analyze" \in call.prompt.keys
    /\ call.returned = Returned(SimInitialAnalysis)

-----------------------------------------------------------------------------
\* the keyword pairs in the order of the spec, each with its canned text
CannedByKeyword ==
    << [keys |-> { "initial", "analyze" }, text |-> SimInitialAnalysis],
       [keys |-> { "disease", "condition" }, text |-> SimDiseaseIdentification],
       [keys |-> { "root cause", "etiology" }, text |-> SimRootCause],
       [keys |-> { "medication", "treatment" }, text |-> SimMedicationRecommendation],
       [keys |-> { "care plan", "management" }, text |-> SimCarePlan] >>

\* the canned text of the first pair of which the prompt holds a keyword
CannedFor(prompt) ==
    LET hits == { i \in 1..Len(CannedByKeyword) : CannedByKeyword[i].keys \cap prompt.keys # {} }
    IN  IF hits = {} THEN SimGeneric
        ELSE CannedByKeyword[CHOOSE i \in hits : \A j \in hits : i <= j].text

\* a canned string as the text that generate_text_response returns
AsText(s) == << Line(<< s >>) >>

\* C29 as stated: on a failure of analyze_image or of generate_text_response
\* (no credentials, nothing answered, the API call throwing) what is returned
\* is the canned string chosen by the keywords of the prompt, in the order
\* initial/analyze, disease/condition, root cause/etiology,
\* medication/treatment, care plan/management, else the generic string.
C29_CannedByPromptKeywords ==
    (call.method # "" /\ call.cond # "success") =>
        /\ call.method = "analyze_image" => call.returned.text = CannedFor(call.prompt)
        /\ call.method = "generate_text_response" =>
               call.returned.text = AsText(CannedFor(call.prompt))

\* C29: on a failure of analyze_image what is returned is the canned string
\* chosen by the keywords of the prompt, in the order initial/analyze,
\* disease/condition, root cause/etiology, medication/treatment, care
\* plan/management, else the generic string; on a failure of
\* generate_text_response what is returned is a fixed sentence chosen by the
\* kind of failure alone, whatever the prompt.
C29_CannedByKeywordsOrByFailure ==
    (call.method # "" /\ call.cond # "success") =>
        /\ call.method = "analyze_image" => call.returned.text = CannedFor(call.prompt)
        /\ call.method = "generate_text_response" =>
               call.returned.text =
                   CASE call.cond = "simulation" ->
                            AsText("Simulated medication recommendations - Please consult with a healthcare provider.")
                     [] call.cond = "empty" ->
                            AsText("Unable to generate recommendations at this time.")
                     [] call.cond = "throws" ->
                            AsText("Unable to generate recommendations due to API error.")

\* the API call of analyze_image threw on a prompt that holds "analyze" and
\* "disease": the text of the earlier pair is returned
C29_Witness ==
    /\ call.method = "analyze_image"
    /\ call.cond = "throws"
    /\ call.prompt.keys = { "analyze", "disease" }
    /\ call.returned.text = SimInitialAnalysis

-----------------------------------------------------------------------------
\* node n has run in caller c's analysis
Ran(c, n) == \E i \in 1..Len(executed[c]) : executed[c][i].node = n

\* C30: in every state, initial_analysis and comprehensive_analysis are
\* both absent or both present, and when present both are the text that the
\* one analyze_image call of this analysis returned; disease_identification
\* and root_cause_analysis, once written, are that same text, or the empty
\* string when the call raised and no analysis text was stored; the
\* disease_identification and root_cause nodes never return status failed.
C30_AnalysisTextReusedVerbatim ==
    \A c \in Callers :
        LET s == st[c] IN
        /\ Has(s, "initial_analysis") <=> Has(s, "comprehensive_analysis")
        /\ Has(s, "initial_analysis") =>
              /\ ~ env[c].img.raised
              /\ s.initial_analysis = env[c].img.text
              /\ s.comprehensive_analysis = env[c].img.text
        /\ (~ Has(s, "initial_analysis") /\ Ran(c, "initial_analysis"))
              => env[c].img.raised
        /\ Has(s, "disease_identification") =>
              s.disease_identification =
                  IF env[c].img.raised THEN "" ELSE env[c].img.text
        /\ Has(s, "root_cause_analysis") =>
              s.root_cause_analysis =
                  IF env[c].img.raised THEN "" ELSE env[c].img.text
        /\ Ran(c, "disease_identification") => Has(s, "disease_identification")
        /\ Ran(c, "root_cause") => Has(s, "root_cause_analysis")
        /\ { "disease_identification", "root_cause" } \cap FailedNodes(c) = {}

\* the analyze_image call raised, and the two later stages wrote the empty string
C30_Witness ==
    \E c \in Callers :
        /\ env[c].img.raised
        /\ "initial_analysis" \in FailedNodes(c)
        /\ ~ Has(st[c], "initial_analysis")
        /\ Has(st[c], "root_cause_analysis")
        /\ st[c].disease_identification = ""
        /\ st[c].root_cause_analysis = ""

-----------------------------------------------------------------------------
\* C31: the confidence map that the disease-identification stage writes is
\* the same in every analysis, whatever the Model Client returned or raised
\* in stage 2: the three entries 0.85, 0.10 and 0.03 (in hundredths 85, 10
\* and 3), each within [0, 1]; the stage writes it in every analysis.
C31_ConfidenceMapFixed ==
    \A c \in Callers :
        /\ Ran(c, "disease_identification") => Has(st[c], "confidence_scores")
        /\ Has(st[c], "confidence_scores") =>
              /\ DOMAIN st[c].confidence_scores =
                     { "primary_diagnosis", "differential_diagnosis_1", "differential_diagnosis_2" }
              /\ st[c].confidence_scores.primary_diagnosis = 85
              /\ st[c].confidence_scores.differential_diagnosis_1 = 10
              /\ st[c].confidence_scores.differential_diagnosis_2 = 3
              /\ \A k \in DOMAIN st[c].confidence_scores :
                     st[c].confidence_scores[k] \in 0..100

\* the map has been written in an analysis whose stage 2 got a text that
\* the model generated, not the simulated one
C31_Witness ==
    \E c \in Callers :
        /\ Ran(c, "disease_identification")
        /\ ~ env[c].img.raised
        /\ env[c].img.text \in GeneratedAnalyses
        /\ st[c].disease_identification = env[c].img.text
        /\ st[c].confidence_scores = FixedConfidenceScores

-----------------------------------------------------------------------------
\* C32: the step of the medications pass-through node sets the status to
\* medication_pass_through and appends exactly one entry to the message
\* log; the state has the same other fields before and after, each with the
\* value it had, an error written by an earlier stage included.
C32_PassThroughFrame ==
    [][\A c \in Callers :
          (pc[c] = "medications" /\ pc'[c] # "medications") =>
              /\ pc'[c] = "care_plan"
              /\ DOMAIN st'[c] = DOMAIN st[c] \cup { "status", "messages" }
              /\ \A k \in DOMAIN st[c] \ { "status", "messages" } : st'[c][k] = st[c][k]
              /\ st'[c].status = "medication_pass_through"
              /\ Len(st'[c].messages) = Len(st[c].messages) + 1
              /\ SubSeq(st'[c].messages, 1, Len(st[c].messages)) = st[c].messages]_vars

\* the pass-through node has run in an analysis whose stage 2 failed: the
\* error is still there
C32_Witness ==
    \E c \in Callers :
        /\ pc[c] = "care_plan"
        /\ LastNode(c) = "medications"
        /\ "initial_analysis" \in FailedNodes(c)
        /\ st[c].status = "medication_pass_through"
        /\ Has(st[c], "error") /\ st[c].error = ClientError

-----------------------------------------------------------------------------
\* a line that holds "name:", whatever follows the colon
HoldsName(l) ==
    /\ l.m = ""
    /\ Len(StripSegs(l.segs)) >= 2
    /\ "name" \in KeysOf(StripSegs(l.segs))

\* a line that holds the label of one of the four other fields
HoldsField(l) ==
    /\ l.m = ""
    /\ ~ HoldsName(l)
    /\ Len(StripSegs(l.segs)) >= 2
    /\ FieldOfLine(StripSegs(l.segs)) # ""

\* the text from its first line that holds "name:" on, empty without one
FromFirstName(text) ==
    LET at == { i \in 1..Len(text) : HoldsName(text[i]) }
    IN  IF at = {} THEN <<>>
        ELSE SubSeq(text, CHOOSE i \in at : \A j \in at : i <= j, Len(text))

\* C33: the field lines (dosage, duration, type, contraindication) that
\* stand before the first line holding "name:" change no returned record:
\* the list returned for the scanned section is the list returned for the
\* section without its lines before that first name line, and it is the
\* fallback list when the section holds no name line at all.
C33_FieldsBeforeFirstNameIgnored ==
    parsed.done =>
        LET rest == _parse_medication_response(FromFirstName(parsed.section)) IN
        /\ parsed.medications = IF rest = <<>> THEN << ParserFallbackMed >> ELSE rest
        /\ FromFirstName(parsed.section) = <<>> => parsed.medications = << ParserFallbackMed >>

\* a dose line stands first, a usable name line follows it, and the record
\* returned has the default dosage
C33_Witness ==
    /\ parsed.done
    /\ Len(parsed.section) >= 2
    /\ HoldsField(parsed.section[1])
    /\ FieldOfLine(StripSegs(parsed.section[1].segs)) = "dosage"
    /\ NamesMedicine(parsed.section[2])
    /\ Len(parsed.medications) = 1
    /\ parsed.medications[1].dosage = Str("As prescribed by physician")

-----------------------------------------------------------------------------
\* an empty line, or one of blanks only
BlankAt(text, j) == text[j].m = "" /\ IsBlank(StripSegs(text[j].segs))

\* line i is a field line that follows a blank line with no line holding
\* "name:" in between
AfterBlank(text, i) ==
    /\ HoldsField(text[i])
    /\ \E j \in 1..(i - 1) :
          /\ BlankAt(text, j)
          /\ \A k \in (j + 1)..(i - 1) : ~ HoldsName(text[k])

\* the text without the lines of which AfterBlank holds
WithoutAfterBlank(text) ==
    LET keep == { i \in 1..Len(text) : ~ AfterBlank(text, i) }
    IN  [n \in 1..Cardinality(keep) |->
            text[CHOOSE i \in keep : Cardinality({ j \in keep : j <= i }) = n]]

IsPrefix(s, t) == Len(s) <= Len(t) /\ SubSeq(t, 1, Len(s)) = s

\* C34: a blank line flushes the record in progress: the records returned
\* for the section up to a blank line are, unchanged, the first records
\* returned for the whole section, and the field lines that follow a blank
\* line before the next line holding "name:" change no record (the list
\* returned is the one returned for the section without those lines).
C34_BlankLineFlushes ==
    parsed.done =>
        LET section == parsed.section
            whole == _parse_medication_response(section)
        IN  /\ parsed.medications = IF whole = <<>> THEN << ParserFallbackMed >> ELSE whole
            /\ whole = _parse_medication_response(WithoutAfterBlank(section))
            /\ \A j \in 1..Len(section) :
                  BlankAt(section, j) =>
                      IsPrefix(_parse_medication_response(SubSeq(section, 1, j)), whole)

\* a name line, a blank line, a dose line: the record has the default dosage
C34_Witness ==
    /\ parsed.done
    /\ Len(parsed.section) = 3
    /\ NamesMedicine(parsed.section[1])
    /\ BlankAt(parsed.section, 2)
    /\ AfterBlank(parsed.section, 3)
    /\ FieldOfLine(StripSegs(parsed.section[3].segs)) = "dosage"
    /\ Len(parsed.medications) = 1
    /\ parsed.medications[1].dosage = Str("As prescribed by physician")

-----------------------------------------------------------------------------
\* C35: every record of the list that the combined-response parser returns
\* holds the five keys name, dosage, duration, type and contraindications,
\* and its name is not empty and is not, ignoring case, "n/a" or "none".
C35_RecordsCompleteAndNamed ==
    parsed.done =>
        \A i \in 1..Len(parsed.medications) :
            LET med == parsed.medications[i] IN
            /\ DOMAIN med = { "name", "dosage", "duration", "type", "contraindications" }
            /\ med.name # << "" >>
            /\ med.name # <<>>
            /\ Len(med.name) = 1 => Lower(med.name[1]) \notin { "n/a", "none" }

\* a section with a usable name line and a line "Name: N/A": one record is
\* returned, and it is not the fallback
C35_Witness ==
    /\ parsed.done
    /\ \E i, j \in 1..Len(parsed.section) :
          /\ NamesMedicine(parsed.section[i])
          /\ HoldsName(parsed.section[j]) /\ ~ NamesMedicine(parsed.section[j])
    /\ Len(parsed.medications) = 1
    /\ parsed.medications[1].name = Str("Amoxicillin")

-----------------------------------------------------------------------------
\* the places of the section's lines that hold "name:" with a usable value
UsableNameLines(section) == { i \in 1..Len(section) : NamesMedicine(section[i]) }

\* the n-th of them
NthNameLine(section, n) ==
    CHOOSE i \in UsableNameLines(section) :
        Cardinality({ j \in UsableNameLines(section) : j <= i }) = n

\* the value of field f of the record that the name line at place i starts:
\* that of the last line of field f among the lines that follow, up to the
\* next blank line or line holding "name:"; the default without such a line
FieldAfter(section, i, f) ==
    LET stops == { j \in (i + 1)..Len(section) : HoldsName(section[j]) \/ BlankAt(section, j) }
        end == IF stops = {} THEN Len(section) + 1
               ELSE CHOOSE j \in stops : \A k \in stops : j <= k
        hits == { k \in (i + 1)..(end - 1) :
                    HoldsField(section[k]) /\ FieldOfLine(StripSegs(section[k].segs)) = f }
    IN  IF hits = {} THEN Str(DefaultOf(f))
        ELSE ValueOf(StripSegs(section[CHOOSE k \in hits : \A m \in hits : m <= k].segs))

\* C36: when the scanned section holds a line with "name:" and a usable
\* value, the list returned has one record for each such line, in the order
\* of the lines; the name of each is what follows the first colon of its
\* line, and each of its other fields comes from the field lines between
\* its name line and the next blank line or line holding "name:" (the
\* default without one), so that no line of a record that was dropped for
\* its empty, "n/a" or "none" name is found in another record.
C36_OneRecordPerUsableName ==
    (parsed.done /\ UsableNameLines(parsed.section) # {}) =>
        /\ Len(parsed.medications) = Cardinality(UsableNameLines(parsed.section))
        /\ \A n \in 1..Len(parsed.medications) :
              LET i == NthNameLine(parsed.section, n) IN
              /\ parsed.medications[n].name = ValueOf(StripSegs(parsed.section[i].segs))
              /\ \A f \in { "dosage", "duration", "type", "contraindications" } :
                    parsed.medications[n][f] = FieldAfter(parsed.section, i, f)

\* a usable name line, then a line "Name: N/A" and a dose line: one record,
\* with the default dosage
C36_Witness ==
    /\ parsed.done
    /\ Len(parsed.section) = 3
    /\ NamesMedicine(parsed.section[1])
    /\ HoldsName(parsed.section[2]) /\ ~ NamesMedicine(parsed.section[2])
    /\ HoldsField(parsed.section[3])
    /\ FieldOfLine(StripSegs(parsed.section[3].segs)) = "dosage"
    /\ Len(parsed.medications) = 1
    /\ parsed.medications[1].dosage = Str("As prescribed by physician")

-----------------------------------------------------------------------------
\* C37: an analysis without an image, by a Model Client that answers its
\* calls: the preprocess stage is the one stage that fails; stage 2 still
\* makes its analyze_image call, on the absent image, and stores the text
\* answered; the seven stages run; what is returned has status completed
\* and still holds the error "No image provided" of stage 1.
C37_AbsentImageStillCompletes ==
    \A c \in SeqCallers :
        (inp[c].image = NoImage /\ client \in ClientKinds) =>
            /\ Ran(c, "initial_analysis") =>
                  /\ env[c].calls # <<>>
                  /\ env[c].calls[1] = [node |-> "initial_analysis", method |-> "analyze_image"]
                  /\ st[c].image = NoImage
                  /\ Has(st[c], "comprehensive_analysis")
                  /\ Get(st[c], "comprehensive_analysis", "") = env[c].img.text
            /\ FailedNodes(c) \subseteq { "preprocess" }
            /\ Ran(c, "preprocess") => FailedNodes(c) = { "preprocess" }
            /\ pc[c] = "returned" =>
                  /\ ExecutedNodes(c) = Nodes
                  /\ Get(result[c], "status", "") = "completed"
                  /\ Has(result[c], "error")
                  /\ Get(result[c], "error", "") = "No image provided"
                  /\ Has(result[c], "final_report")

\* such an analysis has returned, by a client with credentials
C37_Witness ==
    \E c \in SeqCallers :
        /\ pc[c] = "returned"
        /\ inp[c].image = NoImage
        /\ client = "gemini"
        /\ result[c].status = "completed"
        /\ result[c].error = "No image provided"
        /\ Len(env[c].calls) = 2


\* C38: in a session of the upload page, analysis_complete is true only while
\* analysis_result holds a result whose status is completed, and after an
\* analysis that returned another status or raised (the page shows its
\* failure message) analysis_complete is false
C38_CompleteOnlyWithCompletedResult ==
    /\ ui.analysis_complete =>
          /\ ui.analysis_result # NoResult
          /\ ui.analysis_result.status = "completed"
    /\ ui.status_text \in {"failed", "error"} => ~ui.analysis_complete

\* an analysis raised after an earlier one of the same session had completed
C38_Witness ==
    /\ ui.status_text = "error"
    /\ ui.analysis_result.status = "completed"
    /\ ~ui.analysis_complete
    /\ ui.pc = "idle"

\* C39: the results on the page were produced from the file whose identifier
\* is last_uploaded_file, and a step that changes last_uploaded_file leaves
\* analysis_complete false, analysis_result empty and no results on the page
C39_ShownResultsComeFromLastUploadedFile ==
    [][/\ ui'.shown # NoResult =>
             /\ ui'.shown.file = ui'.last_uploaded_file
             /\ ui'.shown = ui'.analysis_result
       /\ ui'.last_uploaded_file # ui.last_uploaded_file =>
             /\ ~ui'.analysis_complete
             /\ ui'.analysis_result = NoResult
             /\ ui'.shown = NoResult
             /\ ui'.last_uploaded_file = ui'.uploaded_file]_vars

\* results of the second file are on the page after it replaced the first
C39_Witness ==
    /\ ui.shown # NoResult
    /\ ui.shown.file = "knee.png_4096"
    /\ ui.last_uploaded_file = "knee.png_4096"
    /\ ui.uploaded_file = "knee.png_4096"
    /\ ui.shown.image_type = "mri"

====
